---- MODULE Spec2Model ----
(***************************************************************************)
(* A model of rslua's compiler back end (proto.rs, compiler.rs) and lexer  *)
(* (lexer.rs).                                                             *)
(*                                                                         *)
(* The module holds several specifications over one set of variables:      *)
(*   SpecRegs    - the register allocator of ProtoContext                  *)
(*   SpecConst   - the constant table of Proto                             *)
(*   SpecCompile - Compiler.run on blocks of local and assignment          *)
(*                 statements                                              *)
(*   SpecRK      - Compiler.run on a block that keeps adding constants     *)
(*   SpecAssign  - Compiler.run on one assignment between locals           *)
(*   SpecLex     - Lexer.run on every short input over a small alphabet    *)
(*   SpecNum     - Lexer.run on integer-shaped literals around 2^63        *)
(*   SpecDecEsc  - Lexer.run on short strings holding a decimal escape     *)
(*   SpecUtf8Esc - Lexer.run on short strings holding a \u{...} escape     *)
(*   SpecLong    - Lexer.run on long strings whose body holds brackets     *)
(*   SpecFold    - Compiler.run on declarations `local a = e` with e made  *)
(*                 of numeric literals and folded operators                *)
(*   SpecLogic   - Compiler.run on `local a, b` and one statement whose    *)
(*                 expression is built with not, and, or, parentheses and  *)
(*                 the literals nil, true, false                           *)
(* Variables a specification does not use keep their initial value.        *)
(***************************************************************************)
EXTENDS Integers, Sequences, FiniteSets, TLC

VARIABLES
    overflow_checks,  \* build profile: TRUE = arithmetic overflow panics (debug),
                      \* FALSE = it wraps (release)
    status,           \* "running" | "panic" | "done"
    reg_top,          \* ProtoContext.reg_top
    stack_size,       \* Proto.stack_size
    code,             \* Proto.code
    consts,           \* Proto.consts
    const_map,        \* Proto.const_map, a set of entries [k, index]
    local_vars,       \* Proto.local_vars, the names in declaration order
    observed,         \* history of the allocator calls (SpecRegs)
    calls,            \* history of the add_const calls (SpecConst)
    block,            \* the statements compiled so far
    before,           \* reg_top, |code| and local_vars before the last statement
    operands,         \* the RK operands get_rk built during the last operation
    events,           \* what the last operation's lowering went through: the
                      \* returns of expr and the right operands of code_bin_op
    buffer,           \* Context.buffer, the input of Lexer.run as bytes
    config,           \* Lexer.config
    ctx,              \* the Context of the running Lexer.run
    tokens,           \* Lexer.tokens
    lex               \* where Lexer.run is: its status, the message of its error,
                      \* whether an accumulator has lost bits, the tokens returned

vars == <<overflow_checks, status, reg_top, stack_size, code, consts, const_map,
          local_vars, observed, calls, block, before, operands, events,
          buffer, config, ctx, tokens, lex>>

lexvars == <<buffer, config, ctx, tokens, lex>>

compvars == <<overflow_checks, status, reg_top, stack_size, code, consts, const_map,
              local_vars, observed, calls, block, before, operands, events>>

(***************************************************************************)
(* Bounds of the model.                                                    *)
(***************************************************************************)
MaxRegArg == 3      \* largest n passed to reserve_regs / free_reg
MaxRegTop == 6      \* reserve_regs is not called beyond this reg_top
MaxCalls == 5       \* number of add_const calls in one behaviour
MaxStats == 2       \* number of statements in a block
MaxConsts == 258    \* number of constants a block adds to one prototype
MaxTargets == 3     \* number of targets and of values of one assignment
MaxLen == 4         \* number of bytes of an input of Lexer.run (SpecLex)
MaxHexDigits == 9   \* number of hex digits of a \u{...} escape (SpecUtf8Esc)
MaxBody == 5        \* number of bytes after the opening bracket of a long string (SpecLong)
MaxLevel == 1       \* number of = signs of the opening bracket of a long string (SpecLong)
MaxDecls == 2       \* number of one-name local statements before a use of a name (SpecShadow)

(***************************************************************************)
(* u32 arithmetic.  A u32 is held as its 32-bit pattern read as a          *)
(* two's-complement integer: 0 .. 2^31-1 stand for themselves and a        *)
(* negative n stands for 2^32 + n.  Addition and subtraction of small      *)
(* operands on the patterns are then the wrapping operations of u32.       *)
(***************************************************************************)
U32Less(a, b) == IF (a < 0) = (b < 0) THEN a < b ELSE b < 0

U32LessEq(a, b) == a = b \/ U32Less(a, b)

U32Max(a, b) == IF U32Less(a, b) THEN b ELSE a

\* a + n carries out of 32 bits (n a small non-negative operand)
U32AddOverflows(a, n) == a < 0 /\ a + n >= 0

\* a - n borrows (n a small non-negative operand)
U32SubOverflows(a, n) == U32Less(a, n)

(***************************************************************************)
(* Const (crate::consts).  Int and Str carry their value; a Float carries  *)
(* its bit pattern, of which NaNBits is a NaN.                             *)
(***************************************************************************)
NaNBits == 9

ConstInt(i) == [t |-> "Int", v |-> i]

ConstFloat(bits) == [t |-> "Float", v |-> bits]

ConstStr(s) == [t |-> "Str", v |-> s]

\* Const's ==, the key equality of const_map
ConstEq(a, b) ==
    /\ a.t = b.t
    /\ a.v = b.v
    /\ ~(a.t = "Float" /\ a.v = NaNBits)

(***************************************************************************)
(* ProtoContext and Proto.  The operations take and return a context       *)
(* record; `panicked` is set when the operation aborts the process and     *)
(* `error` when it returns a CompileError.                                 *)
(***************************************************************************)
NewProtoContext ==
    [reg_top |-> 0, stack_size |-> 2, code |-> <<>>, consts |-> <<>>,
     const_map |-> {}, local_vars |-> <<>>, operands |-> <<>>, events |-> <<>>,
     panicked |-> FALSE, error |-> FALSE]

\* a panic (overflow check, unreachable!(), todo!(), unwrap of None) and a
\* returned CompileError end the compile; what an operation computes after
\* either is never looked at
Panic(c) == [c EXCEPT !.panicked = TRUE]

Raise(c) == [c EXCEPT !.error = TRUE]

Failed(c) == c.panicked \/ c.error

\* an event of the lowering is noted unless the compile has ended already
Note(c, event) == IF Failed(c) THEN c ELSE [c EXCEPT !.events = Append(@, event)]

check_stack_keeps_old(c, n) ==
    IF U32AddOverflows(c.reg_top, n) /\ overflow_checks THEN Panic(c)
    ELSE LET new_stack == c.reg_top IN
         IF U32Less(c.stack_size, new_stack)
         THEN [c EXCEPT !.stack_size = new_stack]
         ELSE c

check_stack(c, n) ==
    IF U32AddOverflows(c.reg_top, n) /\ overflow_checks THEN Panic(c)
    ELSE LET new_stack == c.reg_top + n IN
         IF U32Less(c.stack_size, new_stack)
         THEN [c EXCEPT !.stack_size = new_stack]
         ELSE c

\* returns the context; the index returned by the code is the old reg_top
reserve_regs(c, n) ==
    LET c1 == check_stack(c, n) IN
    IF c1.panicked THEN c1
    ELSE [c1 EXCEPT !.reg_top = c1.reg_top + n]

get_reg_top(c) == c.reg_top

free_reg(c, n) ==
    IF U32SubOverflows(c.reg_top, n) /\ overflow_checks THEN Panic(c)
    ELSE [c EXCEPT !.reg_top = c.reg_top - n]

\* const_map.get(&k)
const_map_get(c, k) == {e \in c.const_map : ConstEq(e.k, k)}

add_const_no_lookup(c, k) ==
    LET index == Len(c.consts) IN
    [ctx |-> [c EXCEPT !.consts = Append(c.consts, k),
                       !.const_map = c.const_map \cup {[k |-> k, index |-> index]}],
     index |-> index]

\* returns [ctx, index]
add_const(c, k) ==
    LET found == const_map_get(c, k) IN
    IF found # {}
    THEN [ctx |-> c, index |-> (CHOOSE e \in found : TRUE).index]
    ELSE LET index == Len(c.consts) IN
         [ctx |-> [c EXCEPT !.consts = Append(c.consts, k),
                            !.const_map = c.const_map \cup {[k |-> k, index |-> index]}],
          index |-> index]

(***************************************************************************)
(* Instructions (crate::opcodes).  An instruction is held as its opcode    *)
(* and the operand values it was created with; the fields an encoding      *)
(* does not have are 0.  The 32-bit packing is not modelled.               *)
(***************************************************************************)
create_ABC(op, a, b, c) == [op |-> op, A |-> a, B |-> b, C |-> c, Bx |-> 0, sBx |-> 0]

create_ABx(op, a, bx) == [op |-> op, A |-> a, B |-> 0, C |-> 0, Bx |-> bx, sBx |-> 0]

create_AsBx(op, a, sbx) == [op |-> op, A |-> a, B |-> 0, C |-> 0, Bx |-> 0, sBx |-> sbx]

NO_JUMP == -1

MASK_K == 2 ^ 8

RECURSIVE BitOr(_, _)
\* a | b on non-negative integers
BitOr(a, b) ==
    IF a = 0 THEN b
    ELSE IF b = 0 THEN a
    ELSE (IF a % 2 = 1 \/ b % 2 = 1 THEN 1 ELSE 0) + 2 * BitOr(a \div 2, b \div 2)

\* the instruction at the 0-based position pc
InstrAt(c, pc) == c.code[pc + 1]

Emit(c, i) == [c EXCEPT !.code = Append(c.code, i)]

code_return(c, first, nret) == Emit(c, create_ABC("Return", first, nret + 1, 0))

code_nil_counts(c, start_reg, n) == Emit(c, create_ABC("LoadNil", start_reg, n, 0))

\* Proto::code_nil
code_nil(c, start_reg, n) == Emit(c, create_ABC("LoadNil", start_reg, n - 1, 0))

code_bool(c, reg, v, pc) ==
    Emit(c, create_ABC("LoadBool", reg, IF v THEN 1 ELSE 0, pc))

code_const(c, reg_index, const_index) ==
    Emit(c, create_ABx("LoadK", reg_index, const_index))

code_move(c, reg, src) == Emit(c, create_ABC("Move", reg, src, 0))

ArithOps ==
    {"Add", "Minus", "Mul", "Mod", "Pow", "Div", "IDiv", "BAnd", "BOr", "BXor",
     "Shl", "Shr", "Concat"}

CompOps == {"Lt", "Gt", "Ne", "Eq", "Le", "Ge"}

ArithOpCode(op) ==
    CASE op = "Add" -> "Add"
      [] op = "Minus" -> "Sub"
      [] op = "Mul" -> "Mul"
      [] op = "Mod" -> "Mod"
      [] op = "Pow" -> "Pow"
      [] op = "Div" -> "Div"
      [] op = "IDiv" -> "IDiv"
      [] op = "BAnd" -> "BAdd"
      [] op = "BOr" -> "BOr"
      [] op = "BXor" -> "BXor"
      [] op = "Shl" -> "Shl"
      [] op = "Shr" -> "Shr"
      [] op = "Concat" -> "Concat"

\* Proto::code_bin_op; any other operator reaches unreachable!()
proto_code_bin_op(c, op, target, left, right) ==
    IF op \in ArithOps
    THEN Emit(c, create_ABC(ArithOpCode(op), target, left, right))
    ELSE Panic(c)

proto_code_comp_keeps_cond(c, op, left, right) ==
    IF op \notin CompOps THEN Panic(c)
    ELSE LET op_code == CASE op \in {"Lt", "Gt"} -> "Lt"
                          [] op \in {"Ne", "Eq"} -> "Eq"
                          [] op \in {"Le", "Ge"} -> "Le"
         IN Emit(c, create_ABC(op_code, 1, left, right))

\* Proto::code_comp
proto_code_comp(c, op, left, right) ==
    IF op \notin CompOps THEN Panic(c)
    ELSE LET op_code == CASE op \in {"Lt", "Gt"} -> "Lt"
                          [] op \in {"Ne", "Eq"} -> "Eq"
                          [] op \in {"Le", "Ge"} -> "Le"
             cond == IF op = "Ne" THEN 0 ELSE 1
         IN Emit(c, create_ABC(op_code, cond, left, right))

UnOpCode(op) ==
    CASE op = "Minus" -> "Unm"
      [] op = "BNot" -> "BNot"
      [] op = "Not" -> "Not"
      [] op = "Len" -> "Len"

\* Proto::code_un_op
proto_code_un_op(c, op, target, src) ==
    IF op \in {"Minus", "BNot", "Not", "Len"}
    THEN Emit(c, create_ABC(UnOpCode(op), target, src, 0))
    ELSE Panic(c)

code_jmp(c, offset, upvars) == Emit(c, create_AsBx("Jmp", upvars, offset))

add_local_var(c, name) == [c EXCEPT !.local_vars = Append(c.local_vars, name)]

Positions(c, name) == {i \in 1 .. Len(c.local_vars) : c.local_vars[i] = name}

Min(S) == CHOOSE x \in S : \A y \in S : x <= y

\* Option<u32>
None == [some |-> FALSE, v |-> 0]

Some(x) == [some |-> TRUE, v |-> x]

\* the 0-based position of the first local with that name
get_local_var(c, name) ==
    IF Positions(c, name) = {} THEN None ELSE Some(Min(Positions(c, name)) - 1)

\* Proto::save: the last instruction's A becomes target
save(c, target) ==
    IF c.code = <<>> THEN (IF overflow_checks THEN Panic(c) ELSE c)
    ELSE [c EXCEPT !.code[Len(c.code)].A = target]

(***************************************************************************)
(* Reg, Jump and ExprResult (compiler.rs).                                 *)
(***************************************************************************)
NoConst == ConstInt(0)

MkReg(reg, temp, mutable) == [reg |-> reg, temp |-> temp, mutable |-> mutable]

NoReg == MkReg(0, FALSE, FALSE)

new_const(k) == [kind |-> "Const", k |-> k, reg |-> NoReg, pc |-> 0]

new_reg(reg) == [kind |-> "Reg", k |-> NoConst, reg |-> MkReg(reg, FALSE, TRUE), pc |-> 0]

new_temp_reg(reg) == [kind |-> "Reg", k |-> NoConst, reg |-> MkReg(reg, TRUE, TRUE), pc |-> 0]

new_const_reg(reg) == [kind |-> "Reg", k |-> NoConst, reg |-> MkReg(reg, FALSE, FALSE), pc |-> 0]

new_jump(reg, pc) == [kind |-> "Jump", k |-> NoConst, reg |-> reg, pc |-> pc]

ResNil == [kind |-> "Nil", k |-> NoConst, reg |-> NoReg, pc |-> 0]

ResTrue == [kind |-> "True", k |-> NoConst, reg |-> NoReg, pc |-> 0]

ResFalse == [kind |-> "False", k |-> NoConst, reg |-> NoReg, pc |-> 0]

is_const(r) == ~r.mutable

Reg_resolve_keeps_temp(c, r) == c

\* Reg::resolve
Reg_resolve(c, r) == IF r.temp THEN free_reg(c, 1) ELSE c

Jump_fix_backwards(c, j, target) ==
    [c EXCEPT !.code[j.pc + 1].sBx = j.pc - target - 1]

\* Jump::fix
Jump_fix(c, j, target) ==
    [c EXCEPT !.code[j.pc + 1].sBx = target - j.pc - 1]

Jump_resolve_no_skip(c, j) ==
    LET target == j.reg.reg
        c1 == code_bool(c, target, FALSE, 0)
        c2 == code_bool(c1, target, TRUE, 0)
        jmp_pos == Len(c2.code) - 1
        c3 == Jump_fix(c2, j, jmp_pos)
        noted == Note(c3, [ev |-> "resolve", pc |-> j.pc, reg |-> target,
                                from |-> Len(c.code),
                                emitted |-> SubSeq(c3.code, Len(c.code) + 1, Len(c3.code)),
                                sBx |-> c3.code[j.pc + 1].sBx])
    IN Reg_resolve(noted, j.reg)

\* Jump::resolve; the event notes the instructions it emitted on top of the
\* code there was and the offset it left in the Jmp
Jump_resolve(c, j) ==
    LET target == j.reg.reg
        c1 == code_bool(c, target, FALSE, 1)
        c2 == code_bool(c1, target, TRUE, 0)
        jmp_pos == Len(c2.code) - 1
        c3 == Jump_fix(c2, j, jmp_pos)
        noted == Note(c3, [ev |-> "resolve", pc |-> j.pc, reg |-> target,
                                from |-> Len(c.code),
                                emitted |-> SubSeq(c3.code, Len(c.code) + 1, Len(c3.code)),
                                sBx |-> c3.code[j.pc + 1].sBx])
    IN Reg_resolve(noted, j.reg)

Jump_inverse_keeps(c, j) == c

\* Jump::inverse
Jump_inverse(c, j) ==
    \* pc - 1 underflows at pc = 0: a panic, or an index out of bounds
    IF j.pc = 0 THEN Panic(c)
    ELSE [c EXCEPT !.code[j.pc].A = 1 - c.code[j.pc].A]

\* ExprResult::resolve
resolve(c, res) ==
    CASE res.kind = "Reg" -> Reg_resolve(c, res.reg)
      [] res.kind = "Jump" -> Jump_resolve(c, res)
      [] OTHER -> c

\* the match of ExprResult::get_rk
get_rk_match(c, res) ==
    CASE res.kind = "Const" ->
            LET r == add_const(c, res.k)
                rk == BitOr(MASK_K, r.index)
            IN [ctx |-> [r.ctx EXCEPT !.operands = Append(@, [k |-> res.k, rk |-> rk])],
                rk |-> rk]
      [] res.kind = "Reg" -> [ctx |-> c, rk |-> res.reg.reg]
      [] res.kind = "Jump" -> [ctx |-> c, rk |-> res.reg.reg]
      [] OTHER -> [ctx |-> Panic(c), rk |-> 0]

\* ExprResult::get_rk; returns [ctx, rk]; the event notes the kind of the
\* result it is called on
get_rk(c, res) == get_rk_match(Note(c, [ev |-> "get_rk", kind |-> res.kind]), res)

(***************************************************************************)
(* Expressions and statements (crate::ast).                                *)
(***************************************************************************)
Leaf(t, v, name) == [t |-> t, v |-> v, name |-> name, op |-> "", kids |-> <<>>]

ExprInt(i) == Leaf("Int", i, "")

ExprFloat(bits) == Leaf("Float", bits, "")

ExprString(s) == Leaf("String", s, "")

ExprNil == Leaf("Nil", 0, "")

ExprTrue == Leaf("True", 0, "")

ExprFalse == Leaf("False", 0, "")

ExprName(name) == Leaf("Name", 0, name)

BinExpr(op, l, r) == [t |-> "BinExpr", v |-> 0, name |-> "", op |-> op, kids |-> <<l, r>>]

UnExpr(op, e) == [t |-> "UnExpr", v |-> 0, name |-> "", op |-> op, kids |-> <<e>>]

ParenExpr(e) == [t |-> "ParenExpr", v |-> 0, name |-> "", op |-> "", kids |-> <<e>>]

LocalStatOf(names, exprs) == [kind |-> "Local", names |-> names, exprs |-> exprs]

AssignStatOf(left, right) == [kind |-> "Assign", names |-> left, exprs |-> right]

\* BinOp::is_comp
is_comp(op) == op \in CompOps

\* Expr::has_mult_ret: only calls and varargs have several results
has_mult_ret(e) == FALSE

(***************************************************************************)
(* Constant folding.  The arithmetic of Const lives in crate::consts; it   *)
(* is modelled here for numbers.       A result is [some, k, err].         *)
(***************************************************************************)
FoldNone == [some |-> FALSE, k |-> NoConst, err |-> FALSE]

FoldErr == [some |-> FALSE, k |-> NoConst, err |-> TRUE]

Folded(k) == [some |-> TRUE, k |-> k, err |-> FALSE]

FoldOps ==
    {"Add", "Minus", "Mul", "Div", "IDiv", "Mod", "Pow", "BAnd", "BOr", "BXor",
     "Shl", "Shr"}

\* floor division and modulus of Lua
FloorDiv(a, b) == IF b > 0 THEN a \div b ELSE (-a) \div (-b)

FloorMod(a, b) == a - b * FloorDiv(a, b)

RECURSIVE BitOp(_, _, _)
\* a bitwise operation on two's complement integers of any length; bit is
\* the operation on one bit
BitOp(bit, a, b) ==
    IF a \in {0, -1} /\ b \in {0, -1}
    THEN IF bit[a % 2][b % 2] = 1 THEN -1 ELSE 0
    ELSE bit[a % 2][b % 2] + 2 * BitOp(bit, a \div 2, b \div 2)

AndBit == [x \in 0 .. 1 |-> [y \in 0 .. 1 |-> IF x = 1 /\ y = 1 THEN 1 ELSE 0]]

OrBit == [x \in 0 .. 1 |-> [y \in 0 .. 1 |-> IF x = 1 \/ y = 1 THEN 1 ELSE 0]]

XorBit == [x \in 0 .. 1 |-> [y \in 0 .. 1 |-> IF x # y THEN 1 ELSE 0]]

\* The value of a float result is not computed: its bit pattern is held as
\* a code of the operation and its operands, never NaNBits.
FloatCode(op, a, b) ==
    16 + ((((CASE op = "Add" -> 1 [] op = "Minus" -> 2 [] op = "Mul" -> 3
              [] op = "Div" -> 4 [] op = "IDiv" -> 5 [] op = "Mod" -> 6
              [] op = "Pow" -> 7) * 37 + a) * 37 + b) % 1000003)

\* the arithmetic of two Int constants; shifts are modelled for a
\* non-negative left operand and a count of 0 .. 15
int_folding_bin_op(op, a, b) ==
    CASE op = "Add" -> Folded(ConstInt(a + b))
      [] op = "Minus" -> Folded(ConstInt(a - b))
      [] op = "Mul" -> Folded(ConstInt(a * b))
      [] op = "Div" -> Folded(ConstFloat(IF a = 0 /\ b = 0 THEN NaNBits
                                         ELSE FloatCode(op, a, b)))
      [] op = "Pow" -> Folded(ConstFloat(FloatCode(op, a, b)))
      [] op = "IDiv" -> IF b = 0 THEN FoldErr ELSE Folded(ConstInt(FloorDiv(a, b)))
      [] op = "Mod" -> IF b = 0 THEN FoldErr ELSE Folded(ConstInt(FloorMod(a, b)))
      [] op = "BAnd" -> Folded(ConstInt(BitOp(AndBit, a, b)))
      [] op = "BOr" -> Folded(ConstInt(BitOp(OrBit, a, b)))
      [] op = "BXor" -> Folded(ConstInt(BitOp(XorBit, a, b)))
      [] op = "Shl" /\ a >= 0 /\ b \in 0 .. 15 -> Folded(ConstInt(a * 2 ^ b))
      [] op = "Shr" /\ a >= 0 /\ b \in 0 .. 15 -> Folded(ConstInt(a \div 2 ^ b))

\* Const arithmetic: defined on numbers; the bitwise operations need Int
\* operands; an operation with a Float operand gives a Float
const_folding_bin_op(op, l, r) ==
    IF l.t = "Str" \/ r.t = "Str" THEN FoldNone
    ELSE IF l.t = "Int" /\ r.t = "Int" THEN int_folding_bin_op(op, l.v, r.v)
    ELSE IF op \in {"BAnd", "BOr", "BXor", "Shl", "Shr"} THEN FoldErr
    ELSE IF NaNBits \in {l.v, r.v} THEN Folded(ConstFloat(NaNBits))
    ELSE Folded(ConstFloat(FloatCode(op, l.v, r.v)))

const_folding_un_op(op, k) ==
    IF k.t = "Str" THEN FoldNone
    ELSE IF k.t = "Int"
         THEN CASE op = "Minus" -> Folded(ConstInt(-k.v))
                [] op = "BNot" -> Folded(ConstInt(-k.v - 1))
                [] OTHER -> FoldNone
    ELSE CASE op = "Minus" -> Folded(ConstFloat(IF k.v = NaNBits THEN NaNBits
                                                 ELSE FloatCode(op, 0, k.v)))
           [] op = "BNot" -> FoldErr
           [] OTHER -> FoldNone

RECURSIVE try_const_folding(_)
try_const_folding(e) ==
    CASE e.t = "Int" -> Folded(ConstInt(e.v))
      [] e.t = "Float" -> Folded(ConstFloat(e.v))
      [] e.t = "String" -> Folded(ConstStr(e.v))
      [] e.t = "BinExpr" ->
            IF e.op \in FoldOps
            THEN LET l == try_const_folding(e.kids[1]) IN
                 IF l.err THEN FoldErr
                 ELSE LET r == try_const_folding(e.kids[2]) IN
                      IF r.err THEN FoldErr
                      ELSE IF l.some /\ r.some
                           THEN const_folding_bin_op(e.op, l.k, r.k)
                           ELSE FoldNone
            ELSE FoldNone
      [] e.t = "UnExpr" ->
            IF e.op \in {"BNot", "Minus"}
            THEN LET k == try_const_folding(e.kids[1]) IN
                 IF k.err THEN FoldErr
                 ELSE IF k.some THEN const_folding_un_op(e.op, k.k) ELSE FoldNone
            ELSE FoldNone
      [] e.t = "ParenExpr" -> try_const_folding(e.kids[1])
      [] OTHER -> FoldNone

(***************************************************************************)
(* Expression lowering (compiler.rs).  Each operation returns [ctx, res].  *)
(***************************************************************************)
Ok(c, res) == [ctx |-> c, res |-> res]

RECURSIVE expr(_, _, _)

\* Compiler::code_comp; the event notes the instructions it emitted on top
\* of the code there was and the pc of the Jump it returns
code_comp(c, op, target, left, right) ==
    IF target.kind # "Reg" THEN Ok(Panic(c), ResNil)
    ELSE LET swap == op \in {"Ge", "Gt"}
             c1 == proto_code_comp(c, op, IF swap THEN right ELSE left,
                                   IF swap THEN left ELSE right)
             c2 == code_jmp(c1, NO_JUMP, 0)
             jump == Len(c2.code) - 1
             noted == Note(c2, [ev |-> "comp", op |-> op, left |-> left,
                                     right |-> right, from |-> Len(c.code),
                                     emitted |-> SubSeq(c2.code, Len(c.code) + 1, Len(c2.code)),
                                     pc |-> jump])
         IN Ok(noted, new_jump(target.reg, jump))

\* Compiler::code_and; the other arms are todo!().  The event notes the
\* operands and whether a result was returned.
code_and(c, target, left, right) ==
    IF left.kind \in {"True", "Const"}
    THEN Ok(Note(c, [ev |-> "and", left |-> left, right |-> right,
                     returned |-> TRUE, res |-> right]),
            right)
    ELSE Ok(Panic(Note(c, [ev |-> "and", left |-> left, right |-> right,
                           returned |-> FALSE, res |-> ResNil])),
            ResNil)

\* Compiler::code_un_op
\* code_un_op once the operand's RK index g = [ctx, rk] is known
code_un_op_target(g, op, input, e) ==
    LET src == g.rk
        target == IF input.some THEN input.v ELSE g.ctx.reg_top
        c1 == IF input.some THEN g.ctx ELSE reserve_regs(g.ctx, 1)
        c2 == resolve(c1, e)
        c3 == proto_code_un_op(c2, op, target, src)
    IN Ok(c3, IF input.some THEN new_reg(input.v) ELSE new_temp_reg(target))

code_un_op(c, op, input, e) == code_un_op_target(get_rk(c, e), op, input, e)

is_input_reusable(r, input) == r < input

\* code_bin_op once both operands are lowered and resolved (context c2);
\* an event notes the operator that reaches Proto::code_bin_op
code_bin_op_target(c2, op, input, left, right) ==
    LET reg == IF input.some THEN input.v ELSE c2.reg_top
        c3 == IF input.some THEN c2 ELSE reserve_regs(c2, 1)
        result == IF input.some THEN new_reg(reg) ELSE new_temp_reg(reg)
        left_rk == get_rk(c3, left)
        right_rk == get_rk(left_rk.ctx, right)
    IN IF op = "And" THEN code_and(c3, result, left, right)
       ELSE IF is_comp(op)
            THEN code_comp(right_rk.ctx, op, result, left_rk.rk, right_rk.rk)
            ELSE Ok(proto_code_bin_op(Note(right_rk.ctx, [ev |-> "arith", op |-> op]),
                                      op, reg, left_rk.rk, right_rk.rk),
                    result)

\* the instruction writes the register reg
Writes(ins, reg) ==
    CASE ins.op \in {"Lt", "Le", "Eq", "Jmp", "Return"} -> FALSE
      [] ins.op = "LoadNil" -> ins.A <= reg /\ reg <= ins.A + ins.B
      [] OTHER -> ins.A = reg

\* code_bin_op once the right operand is lowered (r = [ctx, res]) on top of
\* the pc instructions there were: when the left operand is in a register,
\* the event notes whether the lowering of the right one wrote it
code_bin_op_lowered(r, pc, op, input, left) ==
    LET noted ==
            IF left.kind \in {"Reg", "Jump"}
            THEN Note(r.ctx, [ev |-> "right", reg |-> left.reg.reg,
                                from |-> pc, to |-> Len(r.ctx.code),
                                wrote |-> \E i \in pc + 1 .. Len(r.ctx.code) :
                                             Writes(r.ctx.code[i], left.reg.reg)])
            ELSE r.ctx
    IN IF Failed(r.ctx) THEN r
       ELSE code_bin_op_target(resolve(noted, r.res), op, input, left, r.res)

\* code_bin_op once the left operand is lowered and resolved (context c1)
code_bin_op_resolved(c1, op, input, left, right_expr) ==
    LET right_input ==
            IF input.some
            THEN IF left.kind \in {"Reg", "Jump"}
                    /\ ~is_input_reusable(left.reg.reg, input.v)
                 THEN None ELSE input
            ELSE None
    IN code_bin_op_lowered(expr(c1, right_expr, right_input), Len(c1.code), op, input, left)

\* code_bin_op once the left operand is lowered (l = [ctx, res])
code_bin_op_right(l, op, input, right_expr) ==
    IF Failed(l.ctx) THEN l
    ELSE code_bin_op_resolved(resolve(l.ctx, l.res), op, input, l.res, right_expr)

code_bin_op(c, op, input, left_expr, right_expr) ==
    code_bin_op_right(expr(c, left_expr, input), op, input, right_expr)

\* the event of a code_not: whether the operand folded, the result the
\* operand lowered to, the code once the operand was lowered (the code at
\* entry for a folded operand), and what code_not returns (out = [ctx, res])
code_not_noted(folded, operand, lowered, out) ==
    Ok(Note(out.ctx, [ev |-> "not", folded |-> folded, operand |-> operand,
                      lowered |-> lowered, after |-> out.ctx.code,
                      res |-> out.res]),
       out.res)

\* the match of code_not on the result of the operand (r = [ctx, res])
code_not_match(r, input) ==
    CASE r.res.kind = "Jump" -> Ok(Jump_inverse(r.ctx, r.res), r.res)
      [] r.res.kind \in {"Nil", "False"} -> Ok(r.ctx, ResTrue)
      [] r.res.kind \in {"Const", "True"} -> Ok(r.ctx, ResFalse)
      [] OTHER -> code_un_op(r.ctx, "Not", input, r.res)

\* code_not once the operand is lowered (r = [ctx, res])
code_not_lowered(r, input) ==
    IF Failed(r.ctx) THEN r
    ELSE code_not_noted(FALSE, r.res, r.ctx.code, code_not_match(r, input))

\* code_not once try_const_folding has returned f
code_not_folded(f, c, input, e) ==
    IF f.err THEN Ok(Raise(c), ResNil)
    ELSE IF f.some THEN code_not_noted(TRUE, ResNil, c.code, Ok(c, ResFalse))
    ELSE code_not_lowered(expr(c, e, input), input)

code_not(c, input, e) == code_not_folded(try_const_folding(e), c, input, e)

code_expr(c, e, reg) ==
    CASE e.t = "BinExpr" -> code_bin_op(c, e.op, reg, e.kids[1], e.kids[2])
      [] e.t = "UnExpr" ->
            IF e.op = "Not" THEN code_not(c, reg, e.kids[1])
            ELSE LET result == expr(c, e.kids[1], reg) IN
                 code_un_op(result.ctx, e.op, reg, result.res)
      [] OTHER -> Ok(Panic(c), ResNil)

folded_or_code_lowers(f, c, e, reg) ==
    IF f.err THEN Ok(Raise(c), ResNil) ELSE code_expr(c, e, reg)

\* folding_or_code once try_const_folding has returned f
folded_or_code(f, c, e, reg) ==
    IF f.err THEN Ok(Raise(c), ResNil)
    ELSE IF f.some THEN Ok(c, new_const(f.k))
    ELSE code_expr(c, e, reg)

folding_or_code(c, e, reg) == folded_or_code(try_const_folding(e), c, e, reg)

\* the match of Compiler::expr
expr_match(c, e, reg) ==
    CASE e.t = "Int" -> Ok(c, new_const(ConstInt(e.v)))
      [] e.t = "Float" -> Ok(c, new_const(ConstFloat(e.v)))
      [] e.t = "String" -> Ok(add_const(c, ConstStr(e.v)).ctx, new_const(ConstStr(e.v)))
      [] e.t = "Nil" -> Ok(c, ResNil)
      [] e.t = "True" -> Ok(c, ResTrue)
      [] e.t = "False" -> Ok(c, ResFalse)
      [] e.t = "Name" ->
            LET src == get_local_var(c, e.name) IN
            IF src.some THEN Ok(c, new_const_reg(src.v)) ELSE Ok(Panic(c), ResNil)
      [] e.t \in {"BinExpr", "UnExpr"} -> folding_or_code(c, e, reg)
      [] e.t = "ParenExpr" -> folding_or_code(c, e.kids[1], reg)
      [] OTHER -> Ok(Panic(c), ResNil)

\* the return of expr: a result that carries a register is noted with the
\* reg_top of the return
expr_returned(r) ==
    IF r.res.kind \in {"Reg", "Jump"}
    THEN Ok(Note(r.ctx, [ev |-> "expr", reg |-> r.res.reg.reg,
                           reg_top |-> r.ctx.reg_top]),
            r.res)
    ELSE r

expr(c, e, reg) == expr_returned(expr_match(c, e, reg))

\* expr_and_save once the expression is lowered (result = [ctx, res])
expr_and_save_result(result, reg, temp_reg) ==
    LET c3 == result.ctx
        res == result.res
        c4 == CASE res.kind = "Const" ->
                      LET a == add_const(c3, res.k) IN code_const(a.ctx, reg, a.index)
                [] res.kind = "Reg" /\ is_const(res.reg) -> code_move(c3, reg, res.reg.reg)
                [] res.kind = "Reg" /\ ~is_const(res.reg) -> save(c3, reg)
                [] res.kind = "True" -> code_bool(c3, reg, TRUE, 0)
                [] res.kind = "False" -> code_bool(c3, reg, FALSE, 0)
                [] res.kind = "Nil" -> code_nil(c3, reg, 1)
                [] res.kind = "Jump" -> Jump_resolve(c3, res)
        c5 == IF temp_reg # reg THEN free_reg(c4, 1) ELSE c4
    IN IF Failed(result.ctx) THEN [ctx |-> result.ctx, reg |-> reg]
       ELSE [ctx |-> c5, reg |-> reg]

\* Compiler::expr_and_save; returns [ctx, reg]
expr_and_save(c, e, save_reg) ==
    LET reg == IF save_reg.some THEN save_reg.v ELSE c.reg_top
        c1 == IF save_reg.some THEN c ELSE reserve_regs(c, 1)
        temp_reg == IF ~save_reg.some THEN reg ELSE c1.reg_top
        c2 == IF ~save_reg.some THEN c1 ELSE reserve_regs(c1, 1)
    IN IF Failed(c) THEN [ctx |-> c, reg |-> reg]
       ELSE expr_and_save_result(expr(c2, e, Some(temp_reg)), reg, temp_reg)

\* Compiler::get_assinable_reg; an unknown name fails the unwrap
get_assinable_reg(c, name) == get_local_var(c, name)

(***************************************************************************)
(* Statement lowering (compiler.rs).                                       *)
(***************************************************************************)
\* Compiler::adjust_assign; returns [ctx, extra]
adjust_assign(c, num_left, exprs) ==
    LET extra == num_left - Len(exprs)
        c1 == IF exprs # <<>> /\ has_mult_ret(exprs[Len(exprs)]) THEN Panic(c) ELSE c
    IN IF extra > 0
       THEN LET from == get_reg_top(c1)
                c2 == reserve_regs(c1, extra)
            IN [ctx |-> code_nil(c2, from, extra), extra |-> extra]
       ELSE [ctx |-> c1, extra |-> extra]

RECURSIVE add_local_vars(_, _, _)
add_local_vars(c, names, i) ==
    IF i > Len(names) THEN c
    ELSE add_local_vars(add_local_var(c, names[i]), names, i + 1)

RECURSIVE save_exprs(_, _, _)
\* the loop of local_stat over stat.exprs
save_exprs(c, exprs, i) ==
    IF i > Len(exprs) THEN c
    ELSE save_exprs(expr_and_save(c, exprs[i], None).ctx, exprs, i + 1)

\* AstVisitor::local_stat
local_stat(c, stat) ==
    LET c1 == add_local_vars(c, stat.names, 1)
        c2 == save_exprs(c1, stat.exprs, 1)
    IN adjust_assign(c2, Len(stat.names), stat.exprs).ctx

\* get_assinable_reg(..) of a name, a panic when it is no local
TargetOf(c, name) ==
    LET t == get_assinable_reg(c, name) IN
    [ctx |-> IF t.some THEN c ELSE Panic(c), reg |-> t.v]

RECURSIVE assign_right_direct(_, _, _, _)
assign_right_direct(c, stat, i, to_move) ==
    LET left == stat.names
        right == stat.exprs
        use_temp_reg == Len(right) # Len(left)
    IN IF i > Len(right) THEN [ctx |-> c, to_move |-> to_move]
       ELSE IF use_temp_reg
            THEN LET s == expr_and_save(c, right[i], None) IN
                 IF i <= Len(left)
                 THEN LET t == TargetOf(s.ctx, left[i]) IN
                      assign_right_direct(t.ctx, stat, i + 1,
                                          Append(to_move, <<t.reg, s.reg>>))
                 ELSE assign_right_direct(s.ctx, stat, i + 1, to_move)
            ELSE LET t == TargetOf(c, left[i])
                     s == expr_and_save(t.ctx, right[i], Some(t.reg))
                 IN assign_right_direct(s.ctx, stat, i + 1, to_move)

RECURSIVE assign_right(_, _, _, _)
\* the loop of assign_stat over stat.right, i 1-based; returns [ctx, to_move]
assign_right(c, stat, i, to_move) ==
    LET left == stat.names
        right == stat.exprs
        use_temp_reg == Len(right) # Len(left)
    IN IF i > Len(right) THEN [ctx |-> c, to_move |-> to_move]
       ELSE IF i # Len(right) \/ use_temp_reg
            THEN LET s == expr_and_save(c, right[i], None) IN
                 IF i <= Len(left)
                 THEN LET t == TargetOf(s.ctx, left[i]) IN
                      assign_right(t.ctx, stat, i + 1, Append(to_move, <<t.reg, s.reg>>))
                 ELSE assign_right(s.ctx, stat, i + 1, to_move)
            ELSE LET t == TargetOf(c, left[i])
                     s == expr_and_save(t.ctx, right[i], Some(t.reg))
                 IN assign_right(s.ctx, stat, i + 1, to_move)

RECURSIVE nil_moves(_, _, _, _, _, _)
\* the "nil move" loop of assign_stat, i 0-based; returns [ctx, to_move]
nil_moves(c, stat, reg, extra, i, to_move) ==
    IF i >= extra THEN [ctx |-> c, to_move |-> to_move]
    ELSE LET left_start == Len(stat.names) - extra
             t == TargetOf(c, stat.names[left_start + i + 1])
         IN nil_moves(t.ctx, stat, reg, extra, i + 1,
                      Append(to_move, <<t.reg, reg + i>>))

RECURSIVE apply_moves_keeps(_, _, _)
apply_moves_keeps(c, to_move, i) ==
    IF i < 1 THEN c
    ELSE apply_moves_keeps(code_move(c, to_move[i][1], to_move[i][2]), to_move, i - 1)

RECURSIVE apply_moves(_, _, _)
\* the "apply moves" loop of assign_stat: to_move in reverse, from i down
apply_moves(c, to_move, i) ==
    IF i < 1 THEN c
    ELSE apply_moves(free_reg(code_move(c, to_move[i][1], to_move[i][2]), 1),
                     to_move, i - 1)

\* assign_stat once the right side is lowered (r = [ctx, to_move])
assign_stat_moves(r, stat) ==
    LET reg == get_reg_top(r.ctx)
        a == adjust_assign(r.ctx, Len(stat.names), stat.exprs)
        n == IF a.extra > 0
             THEN nil_moves(a.ctx, stat, reg, a.extra, 0, r.to_move)
             ELSE [ctx |-> a.ctx, to_move |-> r.to_move]
        c1 == apply_moves(n.ctx, n.to_move, Len(n.to_move))
    IN IF a.extra < 0 THEN free_reg(c1, -a.extra) ELSE c1

\* AstVisitor::assign_stat
assign_stat(c, stat) == assign_stat_moves(assign_right(c, stat, 1, <<>>), stat)

\* Proto::close
close(c) == code_return(c, 0, 0)

(***************************************************************************)
(* The current context as a record, and its write-back.                    *)
(***************************************************************************)
Ctx ==
    [reg_top |-> reg_top, stack_size |-> stack_size, code |-> code,
     consts |-> consts, const_map |-> const_map, local_vars |-> local_vars,
     operands |-> <<>>, events |-> <<>>, panicked |-> FALSE, error |-> FALSE]

\* a failed operation ends the run; of the context it leaves only the
\* events noted before the failure are kept
SetCtx(c) ==
    IF Failed(c)
    THEN /\ status' = IF c.panicked THEN "panic" ELSE "error"
         /\ operands' = <<>>
         /\ events' = c.events
         /\ UNCHANGED <<reg_top, stack_size, code, consts, const_map, local_vars>>
    ELSE /\ status' = status
         /\ operands' = c.operands
         /\ events' = c.events
         /\ reg_top' = c.reg_top
         /\ stack_size' = c.stack_size
         /\ code' = c.code
         /\ consts' = c.consts
         /\ const_map' = c.const_map
         /\ local_vars' = c.local_vars

InitProto ==
    /\ status = "running"
    /\ reg_top = NewProtoContext.reg_top
    /\ stack_size = NewProtoContext.stack_size
    /\ code = NewProtoContext.code
    /\ consts = NewProtoContext.consts
    /\ const_map = NewProtoContext.const_map
    /\ local_vars = NewProtoContext.local_vars
    /\ operands = NewProtoContext.operands
    /\ events = NewProtoContext.events

NoObserved == [max_top |-> 0, prev_stack |-> 2, balanced |-> TRUE]

NoBefore == [reg_top |-> 0, pc |-> 0, local_vars |-> <<>>]

IdleCompile == block = <<>> /\ before = NoBefore

\* Context::new
NewContext ==
    [current |-> 0, line |-> 1, col |-> 1, old_pos |-> 0, old_line |-> 0,
     old_col |-> 0, offset |-> 0, comment_offset |-> 0]

\* LexerConfig::default
DefaultConfig == [use_origin_string |-> FALSE, reserve_comments |-> FALSE]

\* no Lexer.run has been called
IdleLexer ==
    /\ buffer = <<>>
    /\ config = DefaultConfig
    /\ ctx = NewContext
    /\ tokens = <<>>
    /\ lex = [status |-> "idle", msg |-> "", wrapped |-> FALSE, returned |-> <<>>]

IdleHistory == observed = NoObserved /\ calls = <<>>

(***************************************************************************)
(* SpecRegs: any sequence of reserve_regs(n) and free_reg(n) calls on a    *)
(* fresh ProtoContext.                                                     *)
(***************************************************************************)
RegArgs == 0 .. MaxRegArg

ReserveRegs(n) ==
    /\ status = "running"
    /\ reg_top + n <= MaxRegTop
    /\ SetCtx(reserve_regs(Ctx, n))
    /\ observed' = [max_top |-> U32Max(observed.max_top, reg_top'),
                    prev_stack |-> stack_size,
                    balanced |-> observed.balanced /\ ~U32AddOverflows(reg_top, n)]
    /\ UNCHANGED <<overflow_checks, calls, block, before>>
    /\ UNCHANGED lexvars

FreeReg(n) ==
    /\ status = "running"
    /\ reg_top - n >= -MaxRegTop
    /\ SetCtx(free_reg(Ctx, n))
    /\ observed' = [max_top |-> U32Max(observed.max_top, reg_top'),
                    prev_stack |-> stack_size,
                    balanced |-> observed.balanced /\ ~U32SubOverflows(reg_top, n)]
    /\ UNCHANGED <<overflow_checks, calls, block, before>>
    /\ UNCHANGED lexvars

InitRegs ==
    /\ overflow_checks \in BOOLEAN
    /\ InitProto
    /\ IdleHistory
    /\ IdleCompile
    /\ IdleLexer

NextRegs ==
    \/ \E n \in RegArgs : ReserveRegs(n)
    \/ \E n \in RegArgs : FreeReg(n)

SpecRegs == InitRegs /\ [][NextRegs]_vars

\* C1 as stated: after any sequence of reserve_regs and free_reg calls,
\* stack_size is at least the current reg_top and every reg_top observed,
\* and the last call did not lower stack_size.
C1_AnySequence ==
    /\ U32LessEq(reg_top, stack_size)
    /\ U32LessEq(observed.max_top, stack_size)
    /\ U32LessEq(observed.prev_stack, stack_size)

\* C1 amended: the same, for sequences in which every free_reg(n) has
\* n <= reg_top and no reserve_regs carries out of u32; stack_size never
\* decreases in any sequence.
C1_BalancedSequence ==
    /\ observed.balanced =>
          /\ U32LessEq(reg_top, stack_size)
          /\ U32LessEq(observed.max_top, stack_size)
    /\ U32LessEq(observed.prev_stack, stack_size)

\* registers were reserved beyond the initial stack size and freed again
C1_Witness ==
    /\ observed.balanced
    /\ observed.max_top > 2
    /\ reg_top < observed.max_top
    /\ stack_size = observed.max_top

(***************************************************************************)
(* SpecConst: any sequence of add_const calls on one Proto.                *)
(***************************************************************************)
ConstInputs ==
    {ConstInt(0), ConstInt(1), ConstFloat(0), ConstFloat(1), ConstFloat(NaNBits),
     ConstStr(0)}

AddConst(k) ==
    /\ status = "running"
    /\ Len(calls) < MaxCalls
    /\ LET r == add_const(Ctx, k) IN
       /\ SetCtx(r.ctx)
       /\ calls' = Append(calls,
              [k |-> k, index |-> r.index,
               interned |-> \E i \in 1 .. Len(consts) : ConstEq(consts[i], k),
               changed |-> r.ctx.consts # consts \/ r.ctx.const_map # const_map])
    /\ UNCHANGED <<overflow_checks, observed, block, before>>
    /\ UNCHANGED lexvars

InitConst ==
    /\ overflow_checks = FALSE
    /\ InitProto
    /\ IdleHistory
    /\ IdleCompile
    /\ IdleLexer

NextConst == \E k \in ConstInputs : AddConst(k)

SpecConst == InitConst /\ [][NextConst]_vars

\* consts[i] for the 0-based index i of the code
ConstAt(i) == consts[i + 1]

\* C3 as stated: two calls return the same index iff their literals are
\* equal, consts[index] == literal for every call, and a call with an
\* already-interned literal changes neither consts nor const_map.
C3_AllLiterals ==
    /\ \A i, j \in 1 .. Len(calls) :
          (calls[i].index = calls[j].index) <=> ConstEq(calls[i].k, calls[j].k)
    /\ \A i \in 1 .. Len(calls) :
          /\ calls[i].index < Len(consts)
          /\ ConstEq(ConstAt(calls[i].index), calls[i].k)
    /\ \A i \in 1 .. Len(calls) : calls[i].interned => ~calls[i].changed

IsNaN(k) == k.t = "Float" /\ k.v = NaNBits

\* C3 amended: the same for the calls whose literal is not a NaN float; a
\* call with a NaN appends a new entry holding that NaN.
C3_NonNaNLiterals ==
    /\ \A i, j \in 1 .. Len(calls) :
          (~IsNaN(calls[i].k) /\ ~IsNaN(calls[j].k)) =>
              ((calls[i].index = calls[j].index) <=> ConstEq(calls[i].k, calls[j].k))
    /\ \A i \in 1 .. Len(calls) :
          /\ calls[i].index < Len(consts)
          /\ ConstAt(calls[i].index) = calls[i].k
          /\ ~IsNaN(calls[i].k) => ConstEq(ConstAt(calls[i].index), calls[i].k)
    /\ \A i \in 1 .. Len(calls) : calls[i].interned => ~calls[i].changed
    /\ \A i, j \in 1 .. Len(calls) :
          (i # j /\ IsNaN(calls[i].k)) => calls[i].index # calls[j].index

\* a literal was interned, then other literals, then the first one again
C3_Witness ==
    \E i, j \in 1 .. Len(calls) :
        /\ i + 1 < j
        /\ calls[i].k = calls[j].k
        /\ calls[j].interned
        /\ calls[i].index = calls[j].index
        /\ calls[i + 1].index # calls[i].index

(***************************************************************************)
(* Compiler.run: one action per statement the walker visits, and the       *)
(* close of the main function.                                             *)
(***************************************************************************)
Walked(stat) ==
    /\ block' = Append(block, stat)
    /\ before' = [reg_top |-> reg_top, pc |-> Len(code), local_vars |-> local_vars]

LocalStat(stat) ==
    /\ status = "running"
    /\ SetCtx(local_stat(Ctx, stat))
    /\ Walked(stat)
    /\ UNCHANGED <<overflow_checks, observed, calls>>
    /\ UNCHANGED lexvars

AssignStat(stat) ==
    /\ status = "running"
    /\ SetCtx(assign_stat(Ctx, stat))
    /\ Walked(stat)
    /\ UNCHANGED <<overflow_checks, observed, calls>>
    /\ UNCHANGED lexvars

\* main_func after walk_block: close the proto and return it
Close ==
    /\ status = "running"
    /\ LET c == close(Ctx) IN
       /\ code' = c.code
       /\ status' = "done"
    /\ UNCHANGED <<overflow_checks, reg_top, stack_size, consts, const_map, local_vars,
                   observed, calls, block, before, operands, events>>
    /\ UNCHANGED lexvars

InitCompile ==
    /\ overflow_checks \in BOOLEAN
    /\ InitProto
    /\ IdleHistory
    /\ IdleCompile
    /\ IdleLexer

(***************************************************************************)
(* SpecCompile: blocks of local declarations and assignments over the      *)
(* names a, b, c.                                                          *)
(***************************************************************************)
A == ExprName("a")

B == ExprName("b")

One == ExprInt(1)

Two == ExprInt(2)

SimpleExprs == {One, Two, A, B}

RichExprs ==
    {One, A, ExprNil, ExprTrue, ExprFalse, ExprString(0),
     BinExpr("Add", One, Two),
     BinExpr("IDiv", One, ExprInt(0)),
     BinExpr("Add", A, One),
     BinExpr("Minus", One, A),
     BinExpr("Concat", A, B),
     BinExpr("Add", BinExpr("Add", A, One), BinExpr("Mul", B, Two)),
     BinExpr("Add", A, BinExpr("Mul", B, BinExpr("Minus", A, Two))),
     BinExpr("Lt", A, B),
     BinExpr("Ge", A, One),
     BinExpr("Gt", A, B),
     BinExpr("Le", One, A),
     BinExpr("Ne", One, Two),
     BinExpr("Add", BinExpr("Lt", A, B), One),
     BinExpr("Add", BinExpr("Mul", A, B), BinExpr("Lt", A, B)),
     BinExpr("And", One, A),
     BinExpr("And", ExprTrue, BinExpr("Lt", A, B)),
     BinExpr("And", A, B),
     BinExpr("Or", A, B),
     BinExpr("Add", A, ExprNil),
     UnExpr("Minus", A),
     UnExpr("Minus", One),
     UnExpr("Minus", BinExpr("Add", A, B)),
     UnExpr("Len", A),
     UnExpr("Not", A),
     UnExpr("Not", One),
     UnExpr("Not", ExprNil),
     UnExpr("Not", BinExpr("Lt", A, B)),
     UnExpr("Not", UnExpr("Not", BinExpr("Eq", A, B))),
     ParenExpr(BinExpr("Add", One, Two)),
     ParenExpr(BinExpr("Add", A, B)),
     ParenExpr(A),
     BinExpr("Add", BinExpr("Add", A, One),
                    BinExpr("Add", BinExpr("Add", A, B), BinExpr("Mul", A, B))),
     BinExpr("Add", BinExpr("Add", A, One), UnExpr("Minus", BinExpr("Add", A, B)))}

ExprLists ==
    {<<e>> : e \in RichExprs} \cup {<<e1, e2>> : e1 \in SimpleExprs, e2 \in SimpleExprs}

LocalStats ==
    {LocalStatOf(names, exprs) :
        names \in {<<"a">>, <<"a", "b">>, <<"a", "b", "c">>},
        exprs \in {<<>>} \cup ExprLists}

AssignStats ==
    {AssignStatOf(left, right) :
        left \in {<<"a">>, <<"a", "b">>, <<"b", "a">>},
        right \in ExprLists}

NextCompile ==
    \/ Len(block) < MaxStats /\ \E stat \in LocalStats : LocalStat(stat)
    \/ Len(block) < MaxStats /\ \E stat \in AssignStats : AssignStat(stat)
    \/ Close

SpecCompile == InitCompile /\ [][NextCompile]_vars

RECURSIVE RegsOfLocals(_)
\* the registers the local statements of a block reserve and keep: one per
\* expression, and one per name beyond the expressions
RegsOfLocals(b) ==
    IF b = <<>> THEN 0
    ELSE LET stat == Head(b)
             held == IF stat.kind # "Local" THEN 0
                     ELSE IF Len(stat.names) > Len(stat.exprs) THEN Len(stat.names)
                     ELSE Len(stat.exprs)
         IN held + RegsOfLocals(Tail(b))

JumpTarget(pc) == pc + 1 + code[pc + 1].sBx

Patched == {pc \in 0 .. Len(code) - 1 :
               code[pc + 1].op = "Jmp" /\ code[pc + 1].sBx # NO_JUMP}

\* C5: every Jmp whose sBx is not NO_JUMP lands inside the code,
\* 0 <= pc + 1 + sBx <= |code|, and the offset written is target - pc - 1
\* for the target Jump::resolve passes: the LoadBool that loads true.
C5_JumpsLandInCode ==
    \A pc \in Patched :
        /\ 0 <= JumpTarget(pc)
        /\ JumpTarget(pc) <= Len(code)
        /\ JumpTarget(pc) < Len(code)
        /\ code[JumpTarget(pc) + 1].op = "LoadBool"
        /\ code[JumpTarget(pc) + 1].B = 1
        /\ code[JumpTarget(pc) + 1].C = 0

\* a finished compile holding a comparison whose Jmp was patched to skip
\* the LoadBool that loads false
C5_Witness ==
    /\ status = "done"
    /\ \E pc \in Patched :
          /\ code[pc].op \in {"Lt", "Le", "Eq"}
          /\ code[pc + 1].sBx = 1
          /\ code[pc + 2].op = "LoadBool"
          /\ code[pc + 2].B = 0

(***************************************************************************)
(* SpecRK: `local a = 0` followed by assignments that each bring a new     *)
(* integer constant into the prototype: a = a + 1, a = a + 2, ...  The     *)
(* last statements of the block vary in shape.                             *)
(***************************************************************************)
Fresh == ExprInt(Len(consts))

FreshStats ==
    IF Len(consts) + 2 < MaxConsts
    THEN {AssignStatOf(<<"a">>, <<BinExpr("Add", A, Fresh)>>)}
    ELSE {AssignStatOf(<<"a">>, <<BinExpr("Add", A, Fresh)>>),
          AssignStatOf(<<"a">>, <<BinExpr("Minus", Fresh, A)>>),
          AssignStatOf(<<"a">>, <<BinExpr("Lt", A, Fresh)>>),
          AssignStatOf(<<"a">>, <<BinExpr("Concat", A, Fresh)>>)}

NextRK ==
    \/ local_vars = <<>> /\ LocalStat(LocalStatOf(<<"a">>, <<ExprInt(0)>>))
    \/ /\ local_vars # <<>>
       /\ Len(consts) < MaxConsts
       /\ \E stat \in FreshStats : AssignStat(stat)
    \/ Close

SpecRK == InitCompile /\ [][NextRK]_vars

\* the MASK_K bit of an operand is set
IsK(rk) == (rk \div MASK_K) % 2 = 1

\* the operand with the MASK_K bit cleared
IndexK(rk) == rk - MASK_K

\* C4: every operand get_rk produced that has the MASK_K bit set decodes
\* (bit cleared) to an index < |consts| and < 256 at which consts holds the
\* constant the operand was built from, however many distinct constants the
\* prototype has.
C4_OperandDecodesToItsConstant ==
    \A i \in 1 .. Len(operands) :
        IsK(operands[i].rk) =>
            /\ IndexK(operands[i].rk) < Len(consts)
            /\ IndexK(operands[i].rk) < MASK_K
            /\ ConstAt(IndexK(operands[i].rk)) = operands[i].k

(***************************************************************************)
(* SpecAssign: a declaration of the locals followed by one assignment      *)
(* whose targets are distinct locals and whose values are locals or        *)
(* constants.                                                              *)
(***************************************************************************)
NamePool == <<"a", "b", "c", "d", "e">>

Names == {NamePool[i] : i \in 1 .. MaxTargets}

AllNames == SubSeq(NamePool, 1, MaxTargets)

SeqsUpTo(S, n) == UNION {[1 .. k -> S] : k \in 1 .. n}

Injective(f) == \A i, j \in DOMAIN f : f[i] = f[j] => i = j

DeclStats == {LocalStatOf(AllNames, exprs) : exprs \in {<<>>, <<One, Two>>}}

MoveStats ==
    {AssignStatOf(left, right) :
        left \in {f \in SeqsUpTo(Names, MaxTargets) : Injective(f)},
        right \in SeqsUpTo({ExprName(n) : n \in Names} \cup {One, Two}, MaxTargets)}

NextAssign ==
    \/ block = <<>> /\ \E stat \in DeclStats : LocalStat(stat)
    \/ Len(block) = 1 /\ \E stat \in MoveStats : AssignStat(stat)
    \/ Close

SpecAssign == InitCompile /\ [][NextAssign]_vars

\* register values: what a register held before the statement, a constant,
\* nil, or the result of an instruction that is not a load or a move
InitialValue(r) == [t |-> "initial", v |-> r]

ConstValue(k) == [t |-> "const", v |-> k.v]

NilValue == [t |-> "nil", v |-> 0]

OtherValue == [t |-> "other", v |-> 0]

\* the effect of one instruction on the registers R
Exec(ins, R) ==
    CASE ins.op = "Move" -> [R EXCEPT ![ins.A] = R[ins.B]]
      [] ins.op = "LoadK" -> [R EXCEPT ![ins.A] = ConstValue(ConstAt(ins.Bx))]
      [] ins.op = "LoadNil" ->
            [r \in DOMAIN R |-> IF ins.A <= r /\ r <= ins.A + ins.B THEN NilValue ELSE R[r]]
      [] OTHER -> [R EXCEPT ![ins.A] = OtherValue]

RECURSIVE Run(_, _)
Run(instructions, R) ==
    IF instructions = <<>> THEN R
    ELSE Run(Tail(instructions), Exec(Head(instructions), R))

\* the instructions the last statement emitted
Emitted == SubSeq(code, before.pc + 1, Len(code))

RegOf(name) == get_local_var(Ctx, name).v

\* the value of a right-hand side in the registers R
ValueOf(e, R) ==
    IF e.t = "Name" THEN R[RegOf(e.name)] ELSE ConstValue(ConstInt(e.v))

RegsBefore == [r \in 0 .. stack_size - 1 |-> InitialValue(r)]

Assigned == status = "running" /\ Len(block) = 2 /\ block[2].kind = "Assign"

TargetRegs == {RegOf(block[2].names[i]) : i \in 1 .. Len(block[2].names)}

WritesTarget(ins) ==
    \/ ins.op \in {"Move", "LoadK"} /\ ins.A \in TargetRegs
    \/ ins.op = "LoadNil" /\ \E r \in TargetRegs : ins.A <= r /\ r <= ins.A + ins.B

\* the instruction evaluates a right-hand side: it loads a constant or
\* reads the register of a local
ReadsValue(ins) ==
    \/ ins.op = "LoadK"
    \/ ins.op = "Move" /\ ins.B < Len(local_vars)

\* C6: executing the instructions assign_stat emitted leaves target i
\* holding the value right-hand side i had before the statement, nil for a
\* target beyond the right-hand sides, and no instruction that writes a
\* target register is followed by one that reads a right-hand side.
C6_ParallelAssignment ==
    Assigned =>
        /\ \A i \in 1 .. Len(block[2].names) :
              Run(Emitted, RegsBefore)[RegOf(block[2].names[i])]
                  = IF i <= Len(block[2].exprs)
                    THEN ValueOf(block[2].exprs[i], RegsBefore)
                    ELSE NilValue
        /\ \A i, j \in 1 .. Len(Emitted) :
              (i < j /\ WritesTarget(Emitted[i])) => ~ReadsValue(Emitted[j])

\* `a, b = b, a` was compiled to a move into a temporary, a move between
\* the locals and a move out of the temporary
C6_Witness ==
    /\ Assigned
    /\ block[2] = AssignStatOf(<<"a", "b">>, <<B, A>>)
    /\ Len(Emitted) = 3
    /\ Run(Emitted, RegsBefore)[0] = InitialValue(1)
    /\ Run(Emitted, RegsBefore)[1] = InitialValue(0)

(***************************************************************************)
(* The lexer (lexer.rs).  A byte is its value 0 .. 255 and a string the    *)
(* sequence of its bytes; positions are 0-based as in the code.            *)
(***************************************************************************)
Ord ==
    [name \in {"tab", "lf", "vt", "ff", "cr", "bell", "bs", "quote", "backslash"} |->
        CASE name = "tab" -> 9 [] name = "lf" -> 10 [] name = "vt" -> 11
          [] name = "ff" -> 12 [] name = "cr" -> 13 [] name = "bell" -> 7
          [] name = "bs" -> 8 [] name = "quote" -> 34 [] name = "backslash" -> 92]
    @@ (" " :> 32) @@ ("#" :> 35) @@ ("%" :> 37) @@ ("&" :> 38) @@ ("apostrophe" :> 39)
    @@ ("(" :> 40) @@ (")" :> 41) @@ ("*" :> 42) @@ ("+" :> 43) @@ ("," :> 44)
    @@ ("-" :> 45) @@ ("." :> 46) @@ ("/" :> 47) @@ ("0" :> 48) @@ ("1" :> 49)
    @@ ("2" :> 50) @@ ("3" :> 51) @@ ("4" :> 52) @@ ("5" :> 53) @@ ("6" :> 54) @@ ("7" :> 55) @@ ("8" :> 56)
    @@ ("9" :> 57) @@ (":" :> 58) @@ (";" :> 59) @@ ("<" :> 60) @@ ("=" :> 61)
    @@ (">" :> 62) @@ ("A" :> 65) @@ ("E" :> 69) @@ ("F" :> 70) @@ ("P" :> 80)
    @@ ("X" :> 88) @@ ("[" :> 91) @@ ("]" :> 93) @@ ("^" :> 94) @@ ("_" :> 95)
    @@ ("backtick" :> 96) @@ ("a" :> 97) @@ ("b" :> 98) @@ ("e" :> 101) @@ ("f" :> 102)
    @@ ("n" :> 110) @@ ("p" :> 112) @@ ("r" :> 114) @@ ("t" :> 116)
    @@ ("u" :> 117) @@ ("v" :> 118) @@ ("x" :> 120) @@ ("z" :> 122)
    @@ ("{" :> 123) @@ ("|" :> 124) @@ ("}" :> 125) @@ ("~" :> 126)

\* the bytes at the 0-based positions from .. to - 1 of a string
Slice(bytes, from, to) == SubSeq(bytes, from + 1, to)

is_line_break(c) == c \in {Ord["cr"], Ord["lf"]}

is_space(c) == c \in {Ord[" "], Ord["tab"], Ord["vt"], Ord["ff"]}

is_digit(c) == c \in 48 .. 57

is_hex_digit(c) == c \in (97 .. 102) \cup (65 .. 70) \/ is_digit(c)

is_alpha(c) == c \in (65 .. 90) \cup (97 .. 122)

is_valid_name_start(c) == is_alpha(c) \/ is_digit(c) \/ c = Ord["_"]

is_valid_name(c) == is_valid_name_start(c) \/ is_alpha(c)

to_digit(c) == c - 48

to_hex_digit(c) ==
    IF is_digit(c) THEN c - 48
    ELSE (IF c \in 65 .. 90 THEN c + 32 ELSE c) - 97 + 10

\* Context::get_ahead on the context x
get_ahead(x, index) ==
    IF x.current + index < Len(buffer) THEN Some(buffer[x.current + index + 1]) ELSE None

get(x) == get_ahead(x, 0)

get_next(x) == get_ahead(x, 1)

skip(x, n) == [x EXCEPT !.current = @ + n, !.col = @ + n]

next(x) == skip(x, 1)

inc_line(x) == [x EXCEPT !.col = 1, !.line = @ + 1]

\* Context::save
ctx_save(x) == [x EXCEPT !.old_pos = x.current, !.old_col = x.col, !.old_line = x.line]

get_saved_source(x) ==
    [line |-> x.old_line, col |-> x.old_col, length |-> x.current - x.old_pos]

\* Context::write_into; returns [ctx, out]: nothing is written and nothing
\* skipped when fewer than n bytes are left
write_into(x, n, output) ==
    IF x.current + n <= Len(buffer)
    THEN [ctx |-> skip(x, n), out |-> output \o Slice(buffer, x.current, x.current + n)]
    ELSE [ctx |-> x, out |-> output]

check(src, target) == src.some /\ src.v = target

check_current(x, c) == check(get(x), c)

check_current2(x, c1, c2) == check(get(x), c1) \/ check(get(x), c2)

check_next(x, c) == check(get_next(x), c)

check_next2(x, c1, c2) == check(get_next(x), c1) \/ check(get_next(x), c2)

(***************************************************************************)
(* Fixed-width integers as sequences of hexadecimal digits, most           *)
(* significant first: 16 digits for IntType (i64), in two's complement.    *)
(***************************************************************************)
I64Zero == [i \in 1 .. 16 |-> 0]

I64Max == [i \in 1 .. 16 |-> IF i = 1 THEN 7 ELSE 15]

I64Min == [i \in 1 .. 16 |-> IF i = 1 THEN 8 ELSE 0]

\* (r << 4) + d: the top digit is shifted out
ShlAdd(r, d) == [i \in 1 .. Len(r) |-> IF i < Len(r) THEN r[i + 1] ELSE d]

\* the k-th 16-bit limb of a 64-bit word, the first being the highest
Limb(r, k) == r[4 * k - 3] * 4096 + r[4 * k - 2] * 256 + r[4 * k - 1] * 16 + r[4 * k]

\* the 64-bit word of four numbers below 2^16
WordOfLimbs(limbs) ==
    [i \in 1 .. 16 |-> (limbs[(i + 3) \div 4] \div (16 ^ (3 - ((i - 1) % 4)))) % 16]

\* r * m + d on a 64-bit word by long multiplication over its limbs: the
\* low 64 bits w of the result and the carry out of them
MulAdd(r, m, d) ==
    LET p4 == Limb(r, 4) * m + d
        p3 == Limb(r, 3) * m + (p4 \div 65536)
        p2 == Limb(r, 2) * m + (p3 \div 65536)
        p1 == Limb(r, 1) * m + (p2 \div 65536)
    IN [w |-> WordOfLimbs(<<p1 % 65536, p2 % 65536, p3 % 65536, p4 % 65536>>),
        carry |-> p1 \div 65536]

\* -r in two's complement
Negate(r) == MulAdd([i \in 1 .. Len(r) |-> 15 - r[i]], 1, 1).w

IsNegative(r) == r[1] >= 8

(***************************************************************************)
(* Number conversion.  An integer is held as its 16 hexadecimal digits; a  *)
(* float is held as the text it was converted from, its value is not       *)
(* computed.  A conversion returns [some, v, panicked].                    *)
(***************************************************************************)
NoNumber == [some |-> FALSE, v |-> <<>>, panicked |-> FALSE]

NumberOf(v) == [some |-> TRUE, v |-> v, panicked |-> FALSE]

NumberPanic == [some |-> FALSE, v |-> <<>>, panicked |-> TRUE]

RECURSIVE skip_spaces(_, _)
skip_spaces(bytes, i) ==
    IF i < Len(bytes) /\ bytes[i + 1] = Ord[" "] THEN skip_spaces(bytes, i + 1) ELSE i

starts_with_0x(bytes, i) ==
    /\ Len(bytes) > i + 2
    /\ bytes[i + 1] = Ord["0"]
    /\ bytes[i + 2] \in {Ord["x"], Ord["X"]}

\* returns [sign, index]
get_sign(bytes, i) ==
    IF i < Len(bytes) /\ bytes[i + 1] = Ord["-"] THEN [sign |-> -1, index |-> i + 1]
    ELSE IF i < Len(bytes) /\ bytes[i + 1] = Ord["+"] THEN [sign |-> 1, index |-> i + 1]
    ELSE [sign |-> 1, index |-> i]

RECURSIVE hex_digits(_, _, _, _)
\* the hexadecimal loop of str_to_int; returns [r, i, empty, panicked]
hex_digits(bytes, i, r, empty) ==
    IF i < Len(bytes) /\ is_hex_digit(bytes[i + 1])
    THEN hex_digits(bytes, i + 1, ShlAdd(r, to_hex_digit(bytes[i + 1])), FALSE)
    ELSE [r |-> r, i |-> i, empty |-> empty, panicked |-> FALSE]

\* r * 10 + d leaves the range of i64
MulAddOverflows(r, d) ==
    /\ ~IsNegative(r)
    /\ \/ MulAdd(r, 10, d).carry # 0
       \/ IsNegative(MulAdd(r, 10, d).w)

RECURSIVE dec_digits(_, _, _, _)
\* the decimal loop of str_to_int and of the exponent of str_to_hex_float
dec_digits(bytes, i, r, empty) ==
    IF i < Len(bytes) /\ is_digit(bytes[i + 1])
    THEN IF MulAddOverflows(r, to_digit(bytes[i + 1])) /\ overflow_checks
         THEN [r |-> r, i |-> i, empty |-> FALSE, panicked |-> TRUE]
         ELSE dec_digits(bytes, i + 1,
                         MulAdd(r, 10, to_digit(bytes[i + 1])).w, FALSE)
    ELSE [r |-> r, i |-> i, empty |-> empty, panicked |-> FALSE]

\* str_to_int once the digits are read (scan = [r, i, empty, panicked])
str_to_int_end(bytes, sign, scan) ==
    IF scan.panicked THEN NumberPanic
    ELSE IF scan.empty \/ skip_spaces(bytes, scan.i) # Len(bytes) THEN NoNumber
    ELSE IF sign = 1 THEN NumberOf(scan.r)
    ELSE IF scan.r = I64Min /\ overflow_checks THEN NumberPanic
    ELSE NumberOf(Negate(scan.r))

\* str_to_int once the sign is read (sg = [sign, index])
str_to_int_digits(bytes, sg) ==
    str_to_int_end(bytes, sg.sign,
                   IF starts_with_0x(bytes, sg.index)
                   THEN hex_digits(bytes, sg.index + 2, I64Zero, TRUE)
                   ELSE dec_digits(bytes, sg.index, I64Zero, TRUE))

str_to_int(bytes) == str_to_int_digits(bytes, get_sign(bytes, skip_spaces(bytes, 0)))

RECURSIVE SkipDigits(_, _)
SkipDigits(bytes, i) ==
    IF i < Len(bytes) /\ is_digit(bytes[i + 1]) THEN SkipDigits(bytes, i + 1) ELSE i

\* the exponent of a decimal float starting at i reaches the end of the text
ExponentEnds(bytes, i) ==
    IF i = Len(bytes) THEN TRUE
    ELSE /\ bytes[i + 1] \in {Ord["e"], Ord["E"]}
         /\ SkipDigits(bytes, get_sign(bytes, i + 1).index) > get_sign(bytes, i + 1).index
         /\ SkipDigits(bytes, get_sign(bytes, i + 1).index) = Len(bytes)

\* the mantissa of a decimal float whose integer digits end at i
MantissaEnds(bytes, start, i) ==
    IF i < Len(bytes) /\ bytes[i + 1] = Ord["."]
    THEN /\ i > start \/ SkipDigits(bytes, i + 1) > i + 1
         /\ ExponentEnds(bytes, SkipDigits(bytes, i + 1))
    ELSE i > start /\ ExponentEnds(bytes, i)

\* str::parse::<f64> accepts the text (digits, '.', exponent; "inf" and "nan"
\* are not texts the lexer can pass)
parse_float(bytes) ==
    MantissaEnds(bytes, get_sign(bytes, 0).index,
                 SkipDigits(bytes, get_sign(bytes, 0).index))

RECURSIVE hex_mantissa(_, _, _, _)
\* the mantissa loop of str_to_hex_float; returns [i, empty, failed]
hex_mantissa(bytes, i, has_dot, empty) ==
    IF i >= Len(bytes) THEN [i |-> i, empty |-> empty, failed |-> FALSE]
    ELSE IF bytes[i + 1] = Ord["."]
         THEN IF has_dot THEN [i |-> i, empty |-> empty, failed |-> TRUE]
              ELSE hex_mantissa(bytes, i + 1, TRUE, empty)
         ELSE IF is_hex_digit(bytes[i + 1]) THEN hex_mantissa(bytes, i + 1, has_dot, FALSE)
         ELSE [i |-> i, empty |-> empty, failed |-> FALSE]

\* str_to_hex_float once the exponent is read (scan as in dec_digits)
hex_float_end(bytes, text, empty, scan) ==
    IF scan.panicked THEN NumberPanic
    ELSE IF scan.empty THEN NoNumber
    ELSE IF empty \/ scan.i # Len(bytes) THEN NoNumber
    ELSE NumberOf(text)

\* str_to_hex_float once the mantissa is read (m = [i, empty, failed])
hex_float_exponent(bytes, text, m) ==
    IF m.failed THEN NoNumber
    ELSE IF m.i < Len(bytes) /\ bytes[m.i + 1] \in {Ord["p"], Ord["P"]}
         THEN hex_float_end(bytes, text, m.empty,
                            dec_digits(bytes, get_sign(bytes, m.i + 1).index, I64Zero, TRUE))
         ELSE IF m.empty \/ m.i # Len(bytes) THEN NoNumber ELSE NumberOf(text)

\* str_to_hex_float on the bytes after "0x" of text
str_to_hex_float(bytes, text) ==
    hex_float_exponent(bytes, text,
                       hex_mantissa(bytes, get_sign(bytes, 0).index, FALSE, TRUE))

str_to_float(bytes) ==
    IF starts_with_0x(bytes, skip_spaces(bytes, 0))
    THEN str_to_hex_float(Slice(bytes, 2, Len(bytes)), bytes)
    ELSE IF parse_float(bytes) THEN NumberOf(bytes) ELSE NoNumber

\* str_to_num once str_to_int has returned i; returns [kind, v]
str_to_num_float(bytes, i, f) ==
    IF i.panicked THEN [kind |-> "Panic", v |-> <<>>]
    ELSE IF i.some THEN [kind |-> "Int", v |-> i.v]
    ELSE IF f.panicked THEN [kind |-> "Panic", v |-> <<>>]
    ELSE IF f.some THEN [kind |-> "Float", v |-> f.v]
    ELSE [kind |-> "None", v |-> <<>>]

str_to_num(bytes) == str_to_num_float(bytes, str_to_int(bytes), str_to_float(bytes))

(***************************************************************************)
(* UTF-8 (std): str::from_utf8, char::from_u32 and the encoding of a char. *)
(***************************************************************************)
IsCont(bytes, i) == i <= Len(bytes) /\ bytes[i] \in 128 .. 191

RECURSIVE valid_utf8_from(_, _)
\* the bytes from the 1-based position i on are well-formed UTF-8
valid_utf8_from(bytes, i) ==
    IF i > Len(bytes) THEN TRUE
    ELSE CASE bytes[i] < 128 -> valid_utf8_from(bytes, i + 1)
           [] bytes[i] \in 194 .. 223 ->
                IsCont(bytes, i + 1) /\ valid_utf8_from(bytes, i + 2)
           [] bytes[i] \in 224 .. 239 ->
                /\ IsCont(bytes, i + 1)
                /\ bytes[i] = 224 => bytes[i + 1] >= 160
                /\ bytes[i] = 237 => bytes[i + 1] <= 159
                /\ IsCont(bytes, i + 2)
                /\ valid_utf8_from(bytes, i + 3)
           [] bytes[i] \in 240 .. 244 ->
                /\ IsCont(bytes, i + 1)
                /\ bytes[i] = 240 => bytes[i + 1] >= 144
                /\ bytes[i] = 244 => bytes[i + 1] <= 143
                /\ IsCont(bytes, i + 2)
                /\ IsCont(bytes, i + 3)
                /\ valid_utf8_from(bytes, i + 4)
           [] OTHER -> FALSE

from_utf8(bytes) == valid_utf8_from(bytes, 1)

\* a u32 as 8 hexadecimal digits
U32Of(d) == [i \in 1 .. 8 |-> IF i = 8 THEN d ELSE 0]

RECURSIVE WordValue(_, _)
\* the value of the first n digits of a word (small words only)
WordValue(r, n) == IF n = 0 THEN 0 ELSE 16 * WordValue(r, n - 1) + r[n]

WordGreater(a, b) ==
    \E i \in 1 .. Len(a) : a[i] > b[i] /\ \A j \in 1 .. i - 1 : a[j] = b[j]

\* 0x10FFFF
MaxCodePoint == <<0, 0, 1, 0, 15, 15, 15, 15>>

is_code_point(r) ==
    /\ ~WordGreater(r, MaxCodePoint)
    /\ WordValue(r, 8) \notin 55296 .. 57343

\* String::push(char) on an empty string, as bytes
encode_utf8(v) ==
    IF v < 128 THEN <<v>>
    ELSE IF v < 2048 THEN <<192 + (v \div 64), 128 + (v % 64)>>
    ELSE IF v < 65536
         THEN <<224 + (v \div 4096), 128 + ((v \div 64) % 64), 128 + (v % 64)>>
    ELSE <<240 + (v \div 262144), 128 + ((v \div 4096) % 64),
           128 + ((v \div 64) % 64), 128 + (v % 64)>>

(***************************************************************************)
(* LexResult.  A reader returns [ctx, kind, t, value, msg, wrapped]:       *)
(*   kind = "token"  Ok(Some((t, value)))                                  *)
(*          "none"   Ok(None)                                              *)
(*          "error"  Err(LexError(msg))                                    *)
(*          "hang"   the reader is in a loop that changes nothing          *)
(*          "panic"  unreachable!() or an overflow check                   *)
(* wrapped records that a u32 accumulator lost its high bits.              *)
(***************************************************************************)
NoValue == [k |-> "None", v |-> <<>>]

StrValue(bytes) == [k |-> "Str", v |-> bytes]

IntValue(w) == [k |-> "Int", v |-> w]

FloatValue(text) == [k |-> "Float", v |-> text]

LexResult(x, kind, t, value, msg) ==
    [ctx |-> x, kind |-> kind, t |-> t, value |-> value, msg |-> msg, wrapped |-> FALSE]

success(x, t, value) == LexResult(x, "token", t, value, "")

OkNone(x) == LexResult(x, "none", "", NoValue, "")

lex_error(x, msg) == LexResult(x, "error", "", NoValue, msg)

Hang(x) == LexResult(x, "hang", "", NoValue, "")

Unreachable(x) == LexResult(x, "panic", "", NoValue, "")

current_is_line_break(x) == get(x).some /\ is_line_break(get(x).v)

skip_line_break_any_pair(x) ==
    inc_line(IF current_is_line_break(next(x)) THEN next(next(x)) ELSE next(x))

\* read_line_break on the context alone
skip_line_break(x) ==
    inc_line(IF get(next(x)) # get(x) /\ current_is_line_break(next(x))
             THEN next(next(x)) ELSE next(x))

read_line_break(x) == OkNone(skip_line_break(x))

read_space(x) == OkNone(next(x))

read_token2(x, c, t1, t2) ==
    IF check_current(next(x), c) THEN success(next(next(x)), t1, NoValue)
    ELSE success(next(x), t2, NoValue)

read_token3(x, c1, c2, t1, t2, t3) ==
    IF check_current(next(x), c1) THEN success(next(next(x)), t1, NoValue)
    ELSE IF check_current(next(x), c2) THEN success(next(next(x)), t2, NoValue)
    ELSE success(next(x), t3, NoValue)

read_eq_assign(x) == read_token2(x, Ord["="], "Eq", "Assign")

read_le_shl_lt(x) == read_token3(x, Ord["="], Ord["<"], "Le", "Shl", "Lt")

read_ge_shr_gt(x) == read_token3(x, Ord["="], Ord[">"], "Ge", "Shr", "Gt")

read_idiv(x) == success(skip(x, 2), "IDiv", NoValue)

read_ne_xor(x) == read_token2(x, Ord["="], "Ne", "BXor")

read_colon(x) == read_token2(x, Ord[":"], "DbColon", "Colon")

\* the is_digit closure of read_number
is_number_char(hex, c) ==
    (hex /\ is_hex_digit(c)) \/ (~hex /\ is_digit(c)) \/ c = Ord["."]

\* the exponent arm of the loop of read_number, w = [ctx, out] after the
\* exponent letter
number_exponent_sign(w) ==
    IF check_current2(w.ctx, Ord["-"], Ord["+"]) THEN write_into(w.ctx, 1, w.out) ELSE w

RECURSIVE number_chars(_, _)
\* the loop of read_number on w = [ctx, out]
number_chars(w, hex) ==
    IF get(w.ctx).some /\ is_number_char(hex, get(w.ctx).v)
    THEN number_chars(write_into(w.ctx, 1, w.out), hex)
    ELSE IF \/ hex /\ check_current2(w.ctx, Ord["P"], Ord["p"])
            \/ ~hex /\ check_current2(w.ctx, Ord["E"], Ord["e"])
         THEN number_chars(number_exponent_sign(write_into(w.ctx, 1, w.out)), hex)
         ELSE w

\* read_number once the text is read (w = [ctx, out]) and converted
read_number_token(w, num) ==
    CASE num.kind = "Int" -> success(w.ctx, "Int", IntValue(num.v))
      [] num.kind = "Float" -> success(w.ctx, "Flt", FloatValue(num.v))
      [] num.kind = "None" -> lex_error(w.ctx, "malformed number")
      [] OTHER -> Unreachable(w.ctx)

\* read_number once the text is read
read_number_text(w) == read_number_token(w, str_to_num(w.out))

read_number(x) ==
    IF check_current(x, Ord["0"]) /\ check_next2(x, Ord["x"], Ord["X"])
    THEN read_number_text(number_chars(write_into(x, 2, <<>>), TRUE))
    ELSE read_number_text(number_chars([ctx |-> x, out |-> <<>>], FALSE))

read_attr_concat_dots_numbers(x) ==
    IF check_next(x, Ord["."])
    THEN IF check_next(next(x), Ord["."])
         THEN success(skip(next(x), 2), "Dots", NoValue)
         ELSE success(next(next(x)), "Concat", NoValue)
    ELSE IF get_next(x).some /\ is_digit(get_next(x).v) THEN read_number(x)
    ELSE success(next(x), "Attr", NoValue)

(***************************************************************************)
(* Escapes of short strings.  An escape reader returns                     *)
(* [ctx, bytes, failed, msg, wrapped].                                     *)
(***************************************************************************)
EscOk(x, bytes) ==
    [ctx |-> x, bytes |-> bytes, failed |-> FALSE, msg |-> "", wrapped |-> FALSE]

EscErr(x, msg) ==
    [ctx |-> x, bytes |-> <<>>, failed |-> TRUE, msg |-> msg, wrapped |-> FALSE]

\* returns [ctx, some, v]
try_read_hexa(x) ==
    IF get(x).some /\ is_hex_digit(get(x).v)
    THEN [ctx |-> next(x), some |-> TRUE, v |-> to_hex_digit(get(x).v)]
    ELSE [ctx |-> x, some |-> FALSE, v |-> 0]

\* try_read_hex_esc once the first digit is read
hex_esc_second(p1, p2, bytes) ==
    IF p1.some /\ p2.some THEN EscOk(p2.ctx, Append(bytes, p1.v * 16 + p2.v))
    ELSE EscErr(IF p1.some THEN p2.ctx ELSE p1.ctx, "hexadecimal digit expected")

try_read_hex_esc(x, bytes) ==
    hex_esc_second(try_read_hexa(x), try_read_hexa(try_read_hexa(x).ctx), bytes)

utf8_too_large_never(r) == FALSE

\* r > 0x10FFFF
utf8_too_large(r) == WordGreater(r, MaxCodePoint)

\* try_read_utf8_esc at the closing brace
utf8_esc_close(x, r, bytes, wrapped) ==
    IF check_current(x, Ord["}"])
    THEN IF is_code_point(r)
         THEN [EscOk(next(x), bytes \o encode_utf8(WordValue(r, 8)))
                  EXCEPT !.wrapped = wrapped]
         ELSE [EscErr(x, "invalid utf8 codepoint") EXCEPT !.wrapped = wrapped]
    ELSE [EscErr(x, "missing '}'") EXCEPT !.wrapped = wrapped]

RECURSIVE utf8_esc_digits(_, _, _, _)
\* the loop of try_read_utf8_esc, h the digit just tried
utf8_esc_digits(h, r, bytes, wrapped) ==
    IF ~h.some THEN utf8_esc_close(h.ctx, r, bytes, wrapped)
    ELSE IF utf8_too_large(ShlAdd(r, h.v))
         THEN [EscErr(h.ctx, "UTF-8 value too large")
                  EXCEPT !.wrapped = wrapped \/ r[1] # 0]
         ELSE utf8_esc_digits(try_read_hexa(h.ctx), ShlAdd(r, h.v), bytes,
                              wrapped \/ r[1] # 0)

\* try_read_utf8_esc once the first digit is tried
utf8_esc_first(h, bytes) ==
    IF h.some THEN utf8_esc_digits(try_read_hexa(h.ctx), U32Of(h.v), bytes, FALSE)
    ELSE EscErr(h.ctx, "hexadecimal digit expected")

try_read_utf8_esc(x, bytes) ==
    IF ~get(x).some THEN EscOk(x, bytes)
    ELSE IF get(x).v # Ord["{"] THEN EscErr(x, "missing '{'")
    ELSE utf8_esc_first(try_read_hexa(next(x)), bytes)

RECURSIVE dec_esc_digits(_, _, _)
\* the loop of try_read_dec_esc; returns [ctx, r]
dec_esc_digits(x, r, i) ==
    IF ~get(x).some \/ i + 1 > 2 \/ ~is_digit(get(x).v) THEN [ctx |-> x, r |-> r]
    ELSE dec_esc_digits(next(x), r * 10 + to_digit(get(x).v), i + 1)

\* try_read_dec_esc once the digits are read (d = [ctx, r])
dec_esc_end(d, bytes) ==
    IF d.r > 255 THEN EscErr(d.ctx, "decimal escape too large")
    ELSE EscOk(d.ctx, Append(bytes, d.r))

try_read_dec_esc(x, bytes, first_place) ==
    dec_esc_end(dec_esc_digits(x, to_digit(first_place), 0), bytes)

RECURSIVE skip_white(_)
\* the loop of the \z escape
skip_white(x) ==
    IF get(x).some /\ is_space(get(x).v) THEN skip_white(next(x))
    ELSE IF current_is_line_break(x) THEN skip_white(inc_line(next(x)))
    ELSE x

\* the byte a one-letter escape stands for
SimpleEscapes ==
    (Ord["n"] :> Ord["lf"]) @@ (Ord["r"] :> Ord["cr"]) @@ (Ord["t"] :> Ord["tab"])
    @@ (Ord["a"] :> Ord["bell"]) @@ (Ord["b"] :> Ord["bs"]) @@ (Ord["v"] :> Ord["vt"])
    @@ (Ord["f"] :> Ord["ff"])

\* try_read_esc once the backslash and the byte after it are passed
esc_dispatch(x, c, bytes) ==
    CASE c \in DOMAIN SimpleEscapes -> EscOk(x, Append(bytes, SimpleEscapes[c]))
      [] c = Ord["x"] -> try_read_hex_esc(x, bytes)
      [] c = Ord["u"] -> try_read_utf8_esc(x, bytes)
      [] is_line_break(c) -> EscOk(inc_line(x), Append(bytes, Ord["lf"]))
      [] c \in {Ord["backslash"], Ord["quote"], Ord["apostrophe"]} ->
            EscOk(x, Append(bytes, c))
      [] c = Ord["z"] -> EscOk(skip_white(x), bytes)
      [] is_digit(c) -> try_read_dec_esc(x, bytes, c)
      [] OTHER -> EscErr(x, "invalid escape sequence")

try_read_esc(x, bytes) ==
    IF get(next(x)).some
    THEN esc_dispatch(next(next(x)), get(next(x)).v, bytes)
    ELSE EscOk(next(x), bytes)

(***************************************************************************)
(* Short strings.                                                          *)
(***************************************************************************)
RECURSIVE short_string_chars(_, _, _, _)

\* the escape arm of the loop of read_short_string, e the escape read
short_string_escaped(e, start, wrapped) ==
    IF e.failed THEN [lex_error(e.ctx, e.msg) EXCEPT !.wrapped = wrapped \/ e.wrapped]
    ELSE short_string_chars(e.ctx, start, e.bytes, wrapped \/ e.wrapped)

\* the arm of the loop for a backslash under use_origin_string, w the
\* result of write_into(2): the loop never ends when nothing was skipped
short_string_origin(x, w, start, wrapped) ==
    IF w.ctx = x THEN [Hang(x) EXCEPT !.wrapped = wrapped]
    ELSE short_string_chars(w.ctx, start, w.out, wrapped)

\* read_short_string after its loop
short_string_end(x, bytes, wrapped) ==
    IF from_utf8(bytes)
    THEN [success(next(x), "String", StrValue(bytes)) EXCEPT !.wrapped = wrapped]
    ELSE [lex_error(x, "invalid utf8 string") EXCEPT !.wrapped = wrapped]

\* the loop of read_short_string
short_string_chars(x, start, bytes, wrapped) ==
    IF get(x) = start
    THEN short_string_end(x, IF config.use_origin_string
                             THEN Append(bytes, get(x).v) ELSE bytes, wrapped)
    ELSE IF ~get(x).some
         THEN [lex_error(x, "unfinished string") EXCEPT !.wrapped = wrapped]
    ELSE IF get(x).v = Ord["backslash"]
         THEN IF config.use_origin_string
              THEN short_string_origin(x, write_into(x, 2, bytes), start, wrapped)
              ELSE short_string_escaped(try_read_esc(x, bytes), start, wrapped)
    ELSE IF is_line_break(get(x).v)
         THEN [lex_error(x, "unfinished string") EXCEPT !.wrapped = wrapped]
    ELSE short_string_chars(next(x), start, Append(bytes, get(x).v), wrapped)

read_short_string(x) ==
    short_string_chars(next(x), get(x),
                       IF config.use_origin_string THEN <<get(x).v>> ELSE <<>>, FALSE)

(***************************************************************************)
(* Long strings and comments.                                              *)
(***************************************************************************)
\* usize as i8
as_i8(n) == IF n % 256 >= 128 THEN (n % 256) - 256 ELSE n % 256

RECURSIVE long_string_boundary_loop(_, _, _)
\* the loop of try_read_long_string_boundary; returns [ctx, count, hang].
\* With no byte at current + sep_count + 1 the loop body does nothing and
\* the loop has no exit.
long_string_boundary_loop(x, sep, sep_count) ==
    IF ~get_ahead(x, sep_count + 1).some THEN [ctx |-> x, count |-> -1, hang |-> TRUE]
    ELSE IF get_ahead(x, sep_count + 1).v = Ord["="]
         THEN long_string_boundary_loop(x, sep, sep_count + 1)
    ELSE IF get_ahead(x, sep_count + 1).v = sep
         THEN [ctx |-> skip(x, sep_count + 2), count |-> as_i8(sep_count), hang |-> FALSE]
    ELSE [ctx |-> x, count |-> -1, hang |-> FALSE]

try_read_long_string_boundary(x, sep) ==
    IF check_current(x, sep) THEN long_string_boundary_loop(x, sep, 0)
    ELSE [ctx |-> x, count |-> -1, hang |-> FALSE]

\* the result of read_long_string_impl: [ctx, kind, str, msg]
LongOk(x, str) == [ctx |-> x, kind |-> "ok", str |-> str, msg |-> ""]

LongErr(x, kind, msg) == [ctx |-> x, kind |-> kind, str |-> <<>>, msg |-> msg]

RECURSIVE long_string_chars(_, _, _, _)

\* the arm of the loop of read_long_string_impl for ']', b the boundary read
long_string_close(b, sep_count, start, sem) ==
    IF b.hang THEN LongErr(b.ctx, "hang", "")
    ELSE IF b.count = as_i8(sep_count)
         THEN LongOk(b.ctx,
                     Slice(buffer, start,
                           IF config.use_origin_string THEN b.ctx.current
                           ELSE b.ctx.current - 2 - sep_count))
         ELSE long_string_chars(next(b.ctx), sep_count, start, sem)

\* the loop of read_long_string_impl
long_string_chars(x, sep_count, start, sem) ==
    IF ~get(x).some THEN LongErr(x, "error", sem)
    ELSE IF get(x).v = Ord["]"]
         THEN long_string_close(try_read_long_string_boundary(x, Ord["]"]),
                                sep_count, start, sem)
    ELSE IF is_line_break(get(x).v)
         THEN long_string_chars(skip_line_break(x), sep_count, start, sem)
    ELSE long_string_chars(next(x), sep_count, start, sem)

\* read_long_string_impl once the first line break is skipped (context x1)
long_string_body(x1, start, sep_count, sem) ==
    long_string_chars(x1, sep_count,
                      IF config.use_origin_string THEN start ELSE x1.current, sem)

\* sem is the message of the error: "unfinished long string" or
\* "unfinished long comment"
read_long_string_impl(x, sep_count, sem) ==
    long_string_body(IF current_is_line_break(x) THEN skip_line_break(x) ELSE x,
                     x.current - 2 - sep_count, sep_count, sem)

\* read_long_string once read_long_string_impl has returned r
long_string_token(r, t, keep) ==
    CASE r.kind = "ok" -> IF keep THEN success(r.ctx, t, StrValue(r.str)) ELSE OkNone(r.ctx)
      [] r.kind = "hang" -> Hang(r.ctx)
      [] OTHER -> lex_error(r.ctx, r.msg)

\* read_long_string once the opening boundary is read
read_long_string_open(b) ==
    IF b.hang THEN Hang(b.ctx)
    ELSE IF b.count >= 0
         THEN long_string_token(
                  read_long_string_impl(b.ctx, b.count, "unfinished long string"),
                  "String", TRUE)
    ELSE Unreachable(b.ctx)

read_long_string(x) == read_long_string_open(try_read_long_string_boundary(x, Ord["["]))

RECURSIVE short_comment_chars(_)
\* the loop of read_short_comment on w = [ctx, out]
short_comment_chars(w) ==
    IF get(w.ctx).some /\ ~is_line_break(get(w.ctx).v)
    THEN short_comment_chars(write_into(w.ctx, 1, w.out))
    ELSE w

\* read_short_comment once the text is read
short_comment_token(w) ==
    IF from_utf8(w.out)
    THEN IF config.reserve_comments THEN success(w.ctx, "SComment", StrValue(w.out))
         ELSE OkNone(w.ctx)
    ELSE lex_error(w.ctx, "invalid single line comment")

read_short_comment(x) == short_comment_token(short_comment_chars([ctx |-> x, out |-> <<>>]))

\* read_comment once the boundary after "--" is read
read_comment_open(b) ==
    IF b.hang THEN Hang(b.ctx)
    ELSE IF b.count >= 0
         THEN long_string_token(
                  read_long_string_impl(b.ctx, b.count, "unfinished long comment"),
                  "MComment", config.reserve_comments)
    ELSE read_short_comment(b.ctx)

read_comment(x) == read_comment_open(try_read_long_string_boundary(skip(x, 2), Ord["["]))

(***************************************************************************)
(* Names, keywords and the one-byte tokens.                                *)
(***************************************************************************)
OtherTokens ==
    (Ord["+"] :> "Add") @@ (Ord["-"] :> "Minus") @@ (Ord["*"] :> "Mul")
    @@ (Ord["/"] :> "Div") @@ (Ord["%"] :> "Mod") @@ (Ord["^"] :> "Pow")
    @@ (Ord["#"] :> "Len") @@ (Ord["&"] :> "BAnd") @@ (Ord["|"] :> "BOr")
    @@ (Ord["("] :> "Lp") @@ (Ord[")"] :> "Rp") @@ (Ord["["] :> "Ls")
    @@ (Ord["]"] :> "Rs") @@ (Ord["{"] :> "Lb") @@ (Ord["}"] :> "Rb")
    @@ (Ord[";"] :> "Semi") @@ (Ord[","] :> "Comma")

\* TokenType::from_keyword, on the keywords of Lua as bytes
Keywords ==
    (<<97, 110, 100>> :> "And") @@ (<<98, 114, 101, 97, 107>> :> "Break")
    @@ (<<100, 111>> :> "Do") @@ (<<101, 108, 115, 101>> :> "Else")
    @@ (<<101, 108, 115, 101, 105, 102>> :> "ElseIf") @@ (<<101, 110, 100>> :> "End")
    @@ (<<102, 97, 108, 115, 101>> :> "False") @@ (<<102, 111, 114>> :> "For")
    @@ (<<102, 117, 110, 99, 116, 105, 111, 110>> :> "Function")
    @@ (<<103, 111, 116, 111>> :> "Goto") @@ (<<105, 102>> :> "If")
    @@ (<<105, 110>> :> "In") @@ (<<108, 111, 99, 97, 108>> :> "Local")
    @@ (<<110, 105, 108>> :> "Nil") @@ (<<110, 111, 116>> :> "Not")
    @@ (<<111, 114>> :> "Or") @@ (<<114, 101, 112, 101, 97, 116>> :> "Repeat")
    @@ (<<114, 101, 116, 117, 114, 110>> :> "Return") @@ (<<116, 104, 101, 110>> :> "Then")
    @@ (<<116, 114, 117, 101>> :> "True") @@ (<<117, 110, 116, 105, 108>> :> "Until")
    @@ (<<119, 104, 105, 108, 101>> :> "While")

RECURSIVE name_chars(_)
\* the loop of read_other_tokens on w = [ctx, out]
name_chars(w) ==
    IF get(w.ctx).some /\ is_valid_name(get(w.ctx).v)
    THEN name_chars(write_into(w.ctx, 1, w.out))
    ELSE w

\* read_other_tokens once the word is read
name_token(w) ==
    IF w.out \in DOMAIN Keywords THEN success(w.ctx, Keywords[w.out], NoValue)
    ELSE success(w.ctx, "Name", StrValue(w.out))

read_other_tokens(x) ==
    IF get(x).v \in DOMAIN OtherTokens THEN success(next(x), OtherTokens[get(x).v], NoValue)
    ELSE IF is_valid_name_start(get(x).v)
         THEN name_token(name_chars(write_into(x, 1, <<>>)))
    ELSE lex_error(x, "unknown token")

(***************************************************************************)
(* Lexer.run.                                                              *)
(***************************************************************************)
\* TokenType::is_comment
is_comment(t) == t \in {"SComment", "MComment"}

\* Lexer::add_token on the token list
add_token_tokens(x, t, value) ==
    Append(tokens,
           [t |-> t, value |-> value, source |-> get_saved_source(x),
            comments |-> IF is_comment(t) THEN <<>>
                         ELSE SubSeq(tokens, x.comment_offset + 1, x.offset)])

\* Lexer::add_token on the context
add_token_ctx(x, t) ==
    [x EXCEPT !.offset = x.offset + 1,
              !.comment_offset = IF is_comment(t) THEN x.comment_offset ELSE x.offset + 1]

\* the match of Lexer::run on the current byte c
read_token_of(x, c) ==
    CASE is_line_break(c) -> read_line_break(x)
      [] is_space(c) -> read_space(x)
      [] is_digit(c) -> read_number(x)
      [] c = Ord["-"] /\ check_next(x, Ord["-"]) -> read_comment(x)
      [] c = Ord["="] -> read_eq_assign(x)
      [] c = Ord["<"] -> read_le_shl_lt(x)
      [] c = Ord[">"] -> read_ge_shr_gt(x)
      [] c = Ord["/"] /\ check_next(x, Ord["/"]) -> read_idiv(x)
      [] c = Ord["~"] -> read_ne_xor(x)
      [] c = Ord[":"] -> read_colon(x)
      [] c = Ord["."] -> read_attr_concat_dots_numbers(x)
      [] c \in {Ord["quote"], Ord["apostrophe"], Ord["backtick"]} -> read_short_string(x)
      [] c = Ord["["] /\ check_next2(x, Ord["["], Ord["="]) -> read_long_string(x)
      [] OTHER -> read_other_tokens(x)

read_token(x) == read_token_of(x, get(x).v)

Running == [status |-> "running", msg |-> "", wrapped |-> FALSE, returned |-> <<>>]

\* one turn of the loop of Lexer::run once the reader has returned r
ReadTokenStep(r) ==
    /\ tokens' = IF r.kind = "token" THEN add_token_tokens(r.ctx, r.t, r.value) ELSE tokens
    /\ ctx' = IF r.kind = "token" THEN add_token_ctx(r.ctx, r.t) ELSE r.ctx
    /\ lex' = [lex EXCEPT !.status = IF r.kind \in {"token", "none"} THEN "running"
                                     ELSE r.kind,
                          !.msg = r.msg,
                          !.wrapped = r.wrapped]

\* one turn of the loop of Lexer::run with a byte left
ReadToken ==
    /\ lex.status = "running"
    /\ get(ctx).some
    /\ ReadTokenStep(read_token(ctx_save(ctx)))
    /\ UNCHANGED <<buffer, config>>
    /\ UNCHANGED compvars

\* the last turn of the loop of Lexer::run: no byte is left
ReturnTokens ==
    /\ lex.status = "running"
    /\ ~get(ctx).some
    /\ lex' = [lex EXCEPT !.status = "ok",
                          !.returned = add_token_tokens(ctx_save(ctx), "Eos", NoValue)]
    /\ tokens' = <<>>
    /\ ctx' = add_token_ctx(ctx_save(ctx), "Eos")
    /\ UNCHANGED <<buffer, config>>
    /\ UNCHANGED compvars

NextLex == ReadToken \/ ReturnTokens

\* Lexer::run has reset the lexer and built its Context
StartedLexer ==
    /\ ctx = NewContext
    /\ tokens = <<>>
    /\ lex = Running

Finished == lex.status # "running"

\* the bytes of a text given as its characters
Bytes(chars) == [i \in DOMAIN chars |-> Ord[chars[i]]]

Configs == [use_origin_string : BOOLEAN, reserve_comments : BOOLEAN]

(***************************************************************************)
(* SpecLex: Lexer.run on every input of at most MaxLen bytes over the      *)
(* alphabet - [ ] = " \ a and line feed, under the four configurations.    *)
(***************************************************************************)
LexAlphabet ==
    {Ord["-"], Ord["["], Ord["]"], Ord["="], Ord["quote"], Ord["backslash"],
     Ord["a"], Ord["lf"]}

LexInputs == {<<>>} \cup SeqsUpTo(LexAlphabet, MaxLen)

InitLex ==
    /\ overflow_checks \in BOOLEAN
    /\ InitProto
    /\ IdleHistory
    /\ IdleCompile
    /\ buffer \in LexInputs
    /\ config \in Configs
    /\ StartedLexer

SpecLex == InitLex /\ [][NextLex]_vars

\* C7 as stated: Lexer.run on any input, under either setting of
\* use_origin_string and of reserve_comments, neither loops forever nor
\* aborts; it ends with a LexError or with tokens of which the last one, and
\* only the last one, is Eos.
C7_RunTerminates ==
    /\ lex.status \notin {"hang", "panic"}
    /\ lex.status = "ok" =>
           /\ lex.returned # <<>>
           /\ \A i \in DOMAIN lex.returned :
                  (lex.returned[i].t = "Eos") <=> (i = Len(lex.returned))

(***************************************************************************)
(* SpecNum: Lexer.run on integer-shaped literals around 2^63, hexadecimal  *)
(* and decimal, of the largest length an i64 holds and one digit longer.   *)
(***************************************************************************)
\* 0x7fffffffffffffff
HexMaxText ==
    <<"0", "x", "7", "f", "f", "f", "f", "f", "f", "f", "f", "f", "f", "f", "f", "f",
      "f", "f">>

\* 9223372036854775807
DecMaxText ==
    <<"9", "2", "2", "3", "3", "7", "2", "0", "3", "6", "8", "5", "4", "7", "7", "5",
      "8", "0", "7">>

MoreDigits == {<<>>, <<"0">>, <<"9">>}

HexLiterals ==
    {Bytes([HexMaxText EXCEPT ![3] = a, ![4] = b, ![Len(HexMaxText)] = c] \o more) :
        a \in {"1", "7", "8", "f"}, b \in {"0", "f"}, c \in {"0", "e", "f"},
        more \in MoreDigits}

DecLiterals ==
    {Bytes([DecMaxText EXCEPT ![1] = a, ![Len(DecMaxText)] = c] \o more) :
        a \in {"1", "9"}, c \in {"0", "6", "7", "8", "9"}, more \in MoreDigits}

InitNum ==
    /\ overflow_checks \in BOOLEAN
    /\ InitProto
    /\ IdleHistory
    /\ IdleCompile
    /\ buffer \in HexLiterals \cup DecLiterals
    /\ config = DefaultConfig
    /\ StartedLexer

SpecNum == InitNum /\ [][NextLex]_vars

IsHexLiteral(bytes) == Len(bytes) >= 2 /\ bytes[2] = Ord["x"]

\* the digits of an integer-shaped literal, as their values
DigitsOf(bytes) ==
    IF IsHexLiteral(bytes) THEN [i \in 1 .. Len(bytes) - 2 |-> to_hex_digit(bytes[i + 2])]
    ELSE [i \in DOMAIN bytes |-> to_digit(bytes[i])]

RECURSIVE StripZeros(_)
StripZeros(digits) ==
    IF digits # <<>> /\ Head(digits) = 0 THEN StripZeros(Tail(digits)) ELSE digits

RECURSIVE DigitsGreater(_, _)
\* a > b for two numerals of one length
DigitsGreater(a, b) ==
    /\ a # <<>>
    /\ \/ Head(a) > Head(b)
       \/ Head(a) = Head(b) /\ DigitsGreater(Tail(a), Tail(b))

\* a > b for two numerals of one base
NumeralGreater(a, b) ==
    \/ Len(StripZeros(a)) > Len(StripZeros(b))
    \/ /\ Len(StripZeros(a)) = Len(StripZeros(b))
       /\ DigitsGreater(StripZeros(a), StripZeros(b))

\* the literal denotes more than i64::MAX
LargerThanMaxInt(bytes) ==
    NumeralGreater(DigitsOf(bytes),
                   DigitsOf(Bytes(IF IsHexLiteral(bytes) THEN HexMaxText ELSE DecMaxText)))

\* C8 as stated: 0x7fffffffffffffff lexes as the Int token of i64::MAX, and
\* an integer-shaped literal, decimal or hexadecimal, that denotes more
\* lexes as a Flt token.
C8_LargerIntegersAreFloats ==
    Finished =>
        /\ buffer = Bytes(HexMaxText) =>
               /\ lex.status = "ok"
               /\ lex.returned[1].t = "Int"
               /\ lex.returned[1].value = IntValue(I64Max)
        /\ LargerThanMaxInt(buffer) =>
               /\ lex.status = "ok"
               /\ lex.returned[1].t = "Flt"

(***************************************************************************)
(* SpecDecEsc: Lexer.run on the short strings "\d", "\dd" and "\ddd".      *)
(***************************************************************************)
Digits == 48 .. 57

DecEscInputs ==
    {<<Ord["quote"], Ord["backslash"]>> \o ds \o <<Ord["quote"]>> :
        ds \in SeqsUpTo(Digits, 3)}

InitDecEsc ==
    /\ overflow_checks \in BOOLEAN
    /\ InitProto
    /\ IdleHistory
    /\ IdleCompile
    /\ buffer \in DecEscInputs
    /\ config \in {c \in Configs : ~c.use_origin_string}
    /\ StartedLexer

SpecDecEsc == InitDecEsc /\ [][NextLex]_vars

RECURSIVE DecValue(_)
\* the number a decimal numeral denotes
DecValue(ds) ==
    IF ds = <<>> THEN 0 ELSE 10 * DecValue(SubSeq(ds, 1, Len(ds) - 1)) + to_digit(ds[Len(ds)])

\* the digits of the escape of an input of SpecDecEsc
EscapeDigits(bytes) == SubSeq(bytes, 3, Len(bytes) - 1)

\* C9 as stated: with use_origin_string = false a short string holding a
\* decimal escape of 1 to 3 digits lexes as a String token when the value
\* is at most 255 and ends in a LexError when it is 256 or more.
C9_DecimalEscapeUpTo255 ==
    Finished =>
        IF DecValue(EscapeDigits(buffer)) <= 255
        THEN lex.status = "ok" /\ lex.returned[1].t = "String"
        ELSE lex.status = "error"

(***************************************************************************)
(* SpecUtf8Esc: Lexer.run on the short strings "\u{H}" with 1 to           *)
(* MaxHexDigits digits H among 0, 1 and F.                                 *)
(***************************************************************************)
Utf8EscInputs ==
    {<<Ord["quote"], Ord["backslash"], Ord["u"], Ord["{"]>> \o hs
         \o <<Ord["}"], Ord["quote"]>> :
        hs \in SeqsUpTo({Ord["0"], Ord["1"], Ord["F"]}, MaxHexDigits)}

InitUtf8Esc ==
    /\ overflow_checks \in BOOLEAN
    /\ InitProto
    /\ IdleHistory
    /\ IdleCompile
    /\ buffer \in Utf8EscInputs
    /\ config \in {c \in Configs : ~c.use_origin_string}
    /\ StartedLexer

SpecUtf8Esc == InitUtf8Esc /\ [][NextLex]_vars

\* the hex digits of the escape of an input of SpecUtf8Esc, as their values
CodePointDigits(bytes) == [i \in 1 .. Len(bytes) - 6 |-> to_hex_digit(bytes[i + 4])]

\* 10FFFF
MaxCodePointDigits == <<1, 0, 15, 15, 15, 15>>

\* C10: with use_origin_string = false, "\u{10FFFF}" lexes as the String
\* token of the four bytes F4 8F BF BF, every \u{H+} escape denoting more
\* than 0x10FFFF ends in the LexError "UTF-8 value too large" whatever the
\* number of its digits, and the accumulator of the escape never loses a bit.
C10_Utf8EscapeRange ==
    /\ ~lex.wrapped
    /\ Finished =>
           /\ CodePointDigits(buffer) = MaxCodePointDigits =>
                  /\ lex.status = "ok"
                  /\ lex.returned[1].t = "String"
                  /\ lex.returned[1].value = StrValue(<<244, 143, 191, 191>>)
           /\ NumeralGreater(CodePointDigits(buffer), MaxCodePointDigits) =>
                  /\ lex.status = "error"
                  /\ lex.msg = "UTF-8 value too large"

\* an escape of MaxHexDigits digits, more than an u32 holds, denoting more
\* than 0x10FFFF has been refused
C10_Witness ==
    /\ Len(CodePointDigits(buffer)) = MaxHexDigits
    /\ Head(CodePointDigits(buffer)) # 0
    /\ lex.status = "error"
    /\ lex.msg = "UTF-8 value too large"

(***************************************************************************)
(* SpecLong: Lexer.run on an opening long bracket of 0 .. MaxLevel = signs *)
(* followed by at most MaxBody bytes among ] = and a.                      *)
(***************************************************************************)
\* [, n = signs, [
OpenBracket(n) == <<Ord["["]>> \o [i \in 1 .. n |-> Ord["="]] \o <<Ord["["]>>

\* ], n = signs, ]
CloseBracket(n) == <<Ord["]"]>> \o [i \in 1 .. n |-> Ord["="]] \o <<Ord["]"]>>

LongInputs ==
    {OpenBracket(n) \o body :
        n \in 0 .. MaxLevel,
        body \in {<<>>} \cup SeqsUpTo({Ord["]"], Ord["="], Ord["a"]}, MaxBody)}

InitLong ==
    /\ overflow_checks \in BOOLEAN
    /\ InitProto
    /\ IdleHistory
    /\ IdleCompile
    /\ buffer \in LongInputs
    /\ config \in Configs
    /\ StartedLexer

SpecLong == InitLong /\ [][NextLex]_vars

RECURSIVE CountEq(_, _)
\* the number of = signs in a row from the i-th byte on
CountEq(bytes, i) ==
    IF i <= Len(bytes) /\ bytes[i] = Ord["="] THEN 1 + CountEq(bytes, i + 1) ELSE 0

\* the number of = signs of the opening bracket of an input of SpecLong
LevelOf(bytes) == CountEq(bytes, 2)

\* what follows the opening bracket
BodyOf(bytes) == SubSeq(bytes, LevelOf(bytes) + 3, Len(bytes))

\* the places of the body where a closing bracket of n = signs starts
Closers(body, n) ==
    {i \in 1 .. Len(body) :
        i + n + 1 <= Len(body) /\ SubSeq(body, i, i + n + 1) = CloseBracket(n)}

FirstCloser(body, n) == CHOOSE i \in Closers(body, n) : \A j \in Closers(body, n) : i <= j

\* the text of the long string that ends at the first closing bracket of
\* its level: its body, or with use_origin_string the brackets too
LongStringText(bytes) ==
    IF config.use_origin_string
    THEN SubSeq(bytes, 1,
                2 * LevelOf(bytes) + 3 + FirstCloser(BodyOf(bytes), LevelOf(bytes)))
    ELSE SubSeq(BodyOf(bytes), 1, FirstCloser(BodyOf(bytes), LevelOf(bytes)) - 1)

\* C11 as stated: a long string opened with [, N = signs and [ ends at the
\* first later ], N = signs and ]; a closing bracket of another level in
\* the body is body text and takes no byte from a matching closing bracket
\* that follows it.
C11_LongStringEndsAtFirstCloser ==
    Finished /\ Closers(BodyOf(buffer), LevelOf(buffer)) # {} =>
        /\ lex.status = "ok"
        /\ lex.returned[1].t = "String"
        /\ lex.returned[1].value = StrValue(LongStringText(buffer))

(***************************************************************************)
(* Properties of the statements of SpecCompile.                            *)
(***************************************************************************)
LastStat == block[Len(block)]

\* a local statement has just been compiled
Declared == status = "running" /\ block # <<>> /\ LastStat.kind = "Local"

\* a local statement with more names than expressions, and an expression,
\* has just been compiled
DeclaredShort ==
    /\ Declared
    /\ LastStat.exprs # <<>>
    /\ Len(LastStat.names) > Len(LastStat.exprs)

Three == ExprInt(3)

\* a float literal, by its bit pattern
Half == ExprFloat(20)

FoldLeaves == {One, Two, Three, Half}

FoldBins == {BinExpr(op, l, r) : op \in FoldOps, l \in FoldLeaves, r \in FoldLeaves}

FoldSums == {BinExpr("Add", One, Two), BinExpr("Minus", One, Three), BinExpr("Div", One, Two)}

FoldNested ==
    {UnExpr(op, e) : op \in {"Minus", "BNot"}, e \in FoldLeaves \cup FoldSums}
    \cup {ParenExpr(e) : e \in FoldSums}
    \cup {BinExpr(op, l, r) :
             op \in {"Add", "Mul", "Pow", "BAnd", "BOr", "BXor"},
             l \in FoldSums \cup {UnExpr("BNot", Two), ParenExpr(BinExpr("Mul", Two, Three))},
             r \in {Two, UnExpr("Minus", One)}}

FoldStats == {LocalStatOf(<<"a">>, <<e>>) : e \in FoldBins \cup FoldNested}

NextFold ==
    \/ Len(block) < MaxStats /\ \E stat \in FoldStats : LocalStat(stat)
    \/ Close

SpecFold == InitCompile /\ [][NextFold]_vars

\* the instructions of the last statement, without the Return of the close
StatCode == IF status = "done" THEN SubSeq(Emitted, 1, Len(Emitted) - 1) ELSE Emitted

FoldOf(stat) == try_const_folding(stat.exprs[1]).k

\* C13: a declaration `local a = e` whose initialiser constant-folds emits
\* exactly one LoadK, into the register of the new local, of the folded
\* constant; the constant table holds the folded results of the block's
\* declarations and nothing else, each once, and no register beyond those of
\* the locals is ever reserved: stack_size has not grown past their number.
C13_FoldedInitialiserIsOneLoadK ==
    (status \in {"running", "done"} /\ block # <<>>) =>
        /\ Len(StatCode) = 1
        /\ StatCode[1].op = "LoadK"
        /\ StatCode[1].A = before.reg_top
        /\ StatCode[1].Bx < Len(consts)
        /\ ConstAt(StatCode[1].Bx) = FoldOf(LastStat)
        /\ {consts[i] : i \in 1 .. Len(consts)} = {FoldOf(block[i]) : i \in 1 .. Len(block)}
        /\ \A i, j \in 1 .. Len(consts) : consts[i] = consts[j] => i = j
        /\ reg_top = Len(block)
        /\ stack_size = U32Max(NewProtoContext.stack_size, reg_top)

\* `local a = 1 + 2` compiled and closed: consts = [Int 3] and the code is
\* LoadK 0,0 ; Return 0,1
C13_Witness ==
    /\ status = "done"
    /\ block = <<LocalStatOf(<<"a">>, <<BinExpr("Add", One, Two)>>)>>
    /\ consts = <<ConstInt(3)>>
    /\ code = <<create_ABx("LoadK", 0, 0), create_ABC("Return", 0, 1, 0)>>

\* every statement of the block is a local declaration, and none failed
OnlyLocals ==
    /\ status \in {"running", "done"}
    /\ block # <<>>
    /\ \A i \in 1 .. Len(block) : block[i].kind = "Local"

\* the register that received the initial value of name j of the last
\* declaration: expression j was saved into the j-th register reserved, and
\* the LoadNil of adjust_assign covers the registers after the expressions
InitialReg(j) == before.reg_top + j - 1

\* the 0-based index in local_vars of name j of the last declaration
LocalIndex(j) == Len(before.local_vars) + j - 1

\* C14: after any sequence of local declarations the index of each local in
\* local_vars is the register that received its initial value, and the
\* number of locals is reg_top.
C14_LocalIndexIsRegister ==
    OnlyLocals =>
        /\ \A j \in 1 .. Len(LastStat.names) : LocalIndex(j) = InitialReg(j)
        /\ Len(local_vars) = reg_top

\* the last statement is an assignment of one value to one local, which
\* assign_stat lowers with expr_and_save(expr, Some(the local's register))
SavedIntoLocal ==
    /\ status = "running"
    /\ block # <<>>
    /\ LastStat.kind = "Assign"
    /\ Len(LastStat.names) = 1
    /\ Len(LastStat.exprs) = 1

\* the result of the initialiser of the last statement was a Jump: the
\* statement ends with the LoadBool pair of Jump::resolve
EndsWithLoadBoolPair ==
    /\ Len(Emitted) >= 2
    /\ code[Len(code)].op = "LoadBool"
    /\ code[Len(code) - 1].op = "LoadBool"

\* C15: expr_and_save(expr, Some(save_reg)) writes the value of expr into
\* save_reg whatever ExprResult the expression lowers to: the instruction
\* that produces the value is the last one emitted and its A is save_reg,
\* and for a comparison both LoadBool of the pair have A = save_reg.
C15_ValueLandsInSaveReg ==
    SavedIntoLocal =>
        /\ Emitted # <<>>
        /\ code[Len(code)].A = RegOf(LastStat.names[1])
        /\ EndsWithLoadBoolPair => code[Len(code) - 1].A = RegOf(LastStat.names[1])

\* the right operands the last statement lowered beside a left operand
\* held in a register
RightOperands == {i \in 1 .. Len(events) : events[i].ev = "right"}

\* C16: while code_bin_op lowers the right operand, no instruction it emits
\* writes the register that holds the left operand, at every nesting depth
\* and with or without an input register.
C16_LeftOperandKept ==
    status = "running" => \A i \in RightOperands : ~events[i].wrote

\* the returns of expr, in the last statement, that carried a register
ExprReturns == {i \in 1 .. Len(events) : events[i].ev = "expr"}

\* C18: whenever expr returns a result carrying a register r (a Reg, or the
\* target of a Jump), r < reg_top at the return.
C18_ReturnedRegisterIsReserved ==
    status = "running" => \A i \in ExprReturns : events[i].reg < events[i].reg_top

\* the last statement is an assignment that was compiled
AssignedLast == status = "running" /\ block # <<>> /\ LastStat.kind = "Assign"

Comparisons == {i \in 1 .. Len(events) : events[i].ev = "comp"}

\* the comparison instruction of op on the operands left and right
ComparisonOf(op, left, right) ==
    CASE op = "Eq" -> create_ABC("Eq", 1, left, right)
      [] op = "Lt" -> create_ABC("Lt", 1, left, right)
      [] op = "Le" -> create_ABC("Le", 1, left, right)
      [] op = "Gt" -> create_ABC("Lt", 1, right, left)
      [] op = "Ge" -> create_ABC("Le", 1, right, left)
      [] op = "Ne" -> create_ABC("Eq", 0, left, right)

\* C19: lowering a comparison emits exactly two adjacent instructions, the
\* comparison and a Jmp with sBx = NO_JUMP, and returns a Jump whose pc is
\* that of the Jmp; Eq, Lt, Le keep the operand order with A = 1, Gt and Ge
\* emit Lt and Le with the operands swapped and A = 1, Ne emits Eq with A = 0.
C19_ComparisonThenJmp ==
    status = "running" =>
        \A i \in Comparisons :
            /\ events[i].emitted =
                   <<ComparisonOf(events[i].op, events[i].left, events[i].right),
                     create_AsBx("Jmp", 0, NO_JUMP)>>
            /\ events[i].pc = events[i].from + 1

\* a statement lowered a > or >= comparison of two different operands, and
\* the right one became B
C19_Witness ==
    /\ status = "running"
    /\ \E i \in Comparisons :
          /\ events[i].op \in {"Gt", "Ge"}
          /\ events[i].left # events[i].right
          /\ events[i].emitted[1].B = events[i].right

\* the Jumps the last statement materialised
Resolved == {i \in 1 .. Len(events) : events[i].ev = "resolve"}

\* C20: materialising a Jump emits exactly two LoadBool on the Jump's
\* target register, the first loading false with C = 1 and the second
\* loading true with C = 0, and leaves the Jmp with pc + 1 + sBx = the
\* position of the LoadBool that loads true.
C20_JumpBecomesLoadBoolPair ==
    status = "running" =>
        \A i \in Resolved :
            /\ events[i].emitted = <<create_ABC("LoadBool", events[i].reg, 0, 1),
                                     create_ABC("LoadBool", events[i].reg, 1, 0)>>
            /\ events[i].pc + 1 + events[i].sBx = events[i].from + 1

\* a statement materialised the Jump of a comparison that is an operand of
\* an outer operation: the Jmp skips the LoadBool that loads false, and the
\* instruction of the outer operation follows the pair
C20_Witness ==
    /\ status = "running"
    /\ \E i \in Resolved :
          /\ events[i].sBx = 1
          /\ code[events[i].pc + 1].op = "Jmp"
          /\ code[events[i].pc + 2] = create_ABC("LoadBool", events[i].reg, 0, 1)
          /\ code[events[i].pc + 3] = create_ABC("LoadBool", events[i].reg, 1, 0)
          /\ Len(code) > events[i].pc + 3
          /\ code[events[i].pc + 4].op = "Add"

(***************************************************************************)
(* SpecLogic: `local a, b` followed by one declaration `local c = e` or    *)
(* one assignment `a = e`, with e from LogicExprs.                         *)
(***************************************************************************)
Not(e) == UnExpr("Not", e)

NotExprs ==
    {Not(One), Not(ExprString(0)), Not(BinExpr("Add", One, Two)),
     Not(ExprNil), Not(ExprFalse), Not(ExprTrue),
     Not(BinExpr("And", One, Two)), Not(BinExpr("And", ExprTrue, ExprTrue)),
     Not(BinExpr("And", ExprTrue, ExprNil)),
     Not(A), Not(BinExpr("Add", A, B)), Not(UnExpr("Minus", A)),
     Not(BinExpr("Lt", A, B)), Not(BinExpr("Ge", A, One)), Not(BinExpr("Ne", A, B)),
     Not(Not(BinExpr("Eq", A, B))), Not(Not(BinExpr("Gt", A, B))),
     Not(Not(A)), Not(Not(ExprNil)),
     Not(BinExpr("And", ExprTrue, BinExpr("Lt", A, B))),
     BinExpr("Add", Not(A), One), BinExpr("Add", Not(BinExpr("Lt", A, B)), One)}

\* the expressions lowered bare and in parentheses
Bare ==
    {One, ExprString(0), ExprNil, ExprTrue, ExprFalse, A,
     BinExpr("Add", One, Two), BinExpr("IDiv", One, ExprInt(0)),
     BinExpr("Add", A, B), BinExpr("Concat", A, ExprString(0)),
     BinExpr("Lt", A, B), UnExpr("Minus", A), Not(A), Not(BinExpr("Lt", A, B))}

ParenExprs == Bare \cup {ParenExpr(e) : e \in Bare}

AndOrExprs ==
    {BinExpr(op, l, r) :
        op \in {"And", "Or"},
        l \in {ExprTrue, One, ExprFalse, ExprNil, A},
        r \in {A, Two, ExprNil, BinExpr("Lt", A, B), BinExpr("Add", A, B)}}

LogicExprs == NotExprs \cup ParenExprs \cup AndOrExprs

LogicStats ==
    {LocalStatOf(<<"c">>, <<e>>) : e \in LogicExprs}
    \cup {AssignStatOf(<<"a">>, <<e>>) : e \in LogicExprs}

NextLogic ==
    \/ block = <<>> /\ LocalStat(LocalStatOf(<<"a", "b">>, <<>>))
    \/ Len(block) = 1 /\ \E stat \in LogicStats :
          IF stat.kind = "Local" THEN LocalStat(stat) ELSE AssignStat(stat)
    \/ Close

SpecLogic == InitCompile /\ [][NextLogic]_vars

\* the code_not calls of the last statement
Nots == {i \in 1 .. Len(events) : events[i].ev = "not"}

\* the 1-based index in the code of the comparison of a Jump
ComparisonIndex(j) == j.pc

FlippedAt(instructions, i) ==
    [instructions EXCEPT ![i].A = 1 - instructions[i].A]

\* C21: code_not returns False and emits nothing when the operand folds;
\* for an operand that lowers to a Jump it emits nothing, flips A of the
\* comparison at Jump.pc - 1 and returns the same Jump; it returns True for
\* Nil and False, False for Const and True, both without emitting; for a
\* register operand, and only then, it emits one Not instruction.
C21_NotByOperandKind ==
    status = "running" =>
        \A i \in Nots :
            LET n == events[i] IN
            IF n.folded THEN n.res = ResFalse /\ n.after = n.lowered
            ELSE CASE n.operand.kind = "Jump" ->
                        /\ n.res = n.operand
                        /\ n.lowered[ComparisonIndex(n.operand)].op \in {"Eq", "Lt", "Le"}
                        /\ n.lowered[ComparisonIndex(n.operand)].A \in {0, 1}
                        /\ n.after = FlippedAt(n.lowered, ComparisonIndex(n.operand))
                   [] n.operand.kind \in {"Nil", "False"} ->
                        n.res = ResTrue /\ n.after = n.lowered
                   [] n.operand.kind \in {"Const", "True"} ->
                        n.res = ResFalse /\ n.after = n.lowered
                   [] n.operand.kind = "Reg" ->
                        /\ n.res.kind = "Reg"
                        /\ Len(n.after) = Len(n.lowered) + 1
                        /\ SubSeq(n.after, 1, Len(n.lowered)) = n.lowered
                        /\ n.after[Len(n.after)].op = "Not"
                        /\ n.after[Len(n.after)].B = n.operand.reg.reg

\* `not not (a == b)` was lowered: two code_not calls on the same Jump, the
\* first left the Eq with A = 0 and the second with A = 1 again
C21_Witness ==
    /\ status = "running"
    /\ \E i, j \in Nots :
          /\ i < j
          /\ events[i].operand.kind = "Jump"
          /\ events[j].operand = events[i].operand
          /\ events[i].after[ComparisonIndex(events[i].operand)] = create_ABC("Eq", 0, 0, 1)
          /\ events[j].after[ComparisonIndex(events[j].operand)] = create_ABC("Eq", 1, 0, 1)

\* the context after the declaration that opens a block of SpecLogic
DeclCtx == local_stat(NewProtoContext, block[1])

\* what the compiler makes of a statement after that declaration
Lowered(stat) ==
    IF stat.kind = "Local" THEN local_stat(DeclCtx, stat) ELSE assign_stat(DeclCtx, stat)

\* the statement with the parentheses around its expression taken off
Unparen(stat) == [stat EXCEPT !.exprs = <<stat.exprs[1].kids[1]>>]

InParens == Len(block) = 2 /\ LastStat.exprs[1].t = "ParenExpr"

\* the run stands where the context c leaves it
StandsAt(c) ==
    /\ c.panicked <=> status = "panic"
    /\ c.error <=> status = "error"
    /\ ~Failed(c) =>
          /\ code = (IF status = "done" THEN close(c) ELSE c).code
          /\ consts = c.consts
          /\ const_map = c.const_map
          /\ reg_top = c.reg_top
          /\ stack_size = c.stack_size
          /\ local_vars = c.local_vars

\* C22: a statement whose expression is ParenExpr(e), e a literal, a local,
\* a BinExpr or a UnExpr, never aborts and leaves the code, the constants
\* and the registers as the same statement with e does.
C22_ParenthesesChangeNothing ==
    InParens => status # "panic" /\ StandsAt(Lowered(Unparen(LastStat)))

\* the operators that reached Proto::code_bin_op, the emission of the
\* arithmetic instructions, in the last statement
Arithmetic == {i \in 1 .. Len(events) : events[i].ev = "arith"}

\* the code_and calls of the last statement
Ands == {i \in 1 .. Len(events) : events[i].ev = "and"}

\* C23: a BinExpr with And or Or never reaches the emission of arithmetic
\* or comparison instructions; code_and with a left operand lowered to True
\* or a Const returns the right operand's result, and with a left operand
\* lowered to False or Nil it returns the constant False.
C23_ShortCircuitRouting ==
    /\ \A i \in Arithmetic : events[i].op \notin {"And", "Or"}
    /\ \A i \in Comparisons : events[i].op \notin {"And", "Or"}
    /\ \A i \in Ands :
          /\ events[i].left.kind \in {"True", "Const"} =>
                events[i].returned /\ events[i].res = events[i].right
          /\ events[i].left.kind \in {"False", "Nil"} =>
                events[i].returned /\ events[i].res = ResFalse


\* C25: over a compile every Jump result is materialised at most once: no
\* two calls of Jump::resolve are for the Jmp of the same comparison, so a
\* comparison contributes at most one LoadBool pair and its register is
\* released at most once, also when the comparison is the right operand of
\* `and` with a statically true left operand.
C25_JumpResolvedAtMostOnce ==
    \A i, j \in Resolved : events[i].pc = events[j].pc => i = j

(***************************************************************************)
(* SpecShadow: MaxDecls statements `local n` or `local n = k`, n being a   *)
(* or b, followed by one use of a declared name: `local c = n`,            *)
(* `local c = n + 1` or the assignment `n = 3`.                            *)
(***************************************************************************)
ShadowNames == {"a", "b"}

ShadowDecls == {LocalStatOf(<<n>>, exprs) : n \in ShadowNames, exprs \in {<<>>, <<One>>, <<Two>>}}

\* the uses of the name n
ShadowUses(n) ==
    {LocalStatOf(<<"c">>, <<ExprName(n)>>),
     LocalStatOf(<<"c">>, <<BinExpr("Add", ExprName(n), One)>>),
     AssignStatOf(<<n>>, <<Three>>)}

NextShadow ==
    \/ Len(block) < MaxDecls /\ \E stat \in ShadowDecls : LocalStat(stat)
    \/ /\ Len(block) = MaxDecls
       /\ \E n \in ShadowNames :
             /\ Positions(Ctx, n) # {}
             /\ \E stat \in ShadowUses(n) :
                   IF stat.kind = "Local" THEN LocalStat(stat) ELSE AssignStat(stat)
    \/ Close

SpecShadow == InitCompile /\ [][NextShadow]_vars

Max(S) == CHOOSE x \in S : \A y \in S : y <= x

\* the declarations of the name n before the last statement, as 1-based
\* positions in local_vars
DeclsOf(n) == {i \in 1 .. Len(before.local_vars) : before.local_vars[i] = n}

\* the register of the most recent declaration of n: every statement of
\* ShadowDecls reserves one register, that of its name
LatestReg(n) == Max(DeclsOf(n)) - 1

\* the name the last statement uses
UsedName ==
    IF LastStat.kind = "Assign" THEN LastStat.names[1]
    ELSE IF LastStat.exprs[1].t = "Name" THEN LastStat.exprs[1].name
    ELSE LastStat.exprs[1].kids[1].name

\* the register the last statement took for the name it uses: the source of
\* the Move, the left operand of the Add, the target of the LoadK
UsedReg ==
    IF LastStat.kind = "Assign" THEN Emitted[Len(Emitted)].A ELSE Emitted[1].B

Used == status = "running" /\ Len(block) = MaxDecls + 1

\* C26: when a name is declared by more than one local statement, a later
\* reference to it and a later assignment to it take the register of the
\* most recent declaration.
C26_LatestDeclarationWins ==
    Used => UsedReg = LatestReg(UsedName)

\* the same for the names declared once
C26_SingleDeclarationResolves ==
    (Used /\ Cardinality(DeclsOf(UsedName)) = 1) => UsedReg = LatestReg(UsedName)

(***************************************************************************)
(* SpecOperand: `local a, b` followed by one declaration `local c = e` or  *)
(* one assignment `a = e`, e being an arithmetic, bitwise, concat,         *)
(* comparison or unary operator that is not folded, on the operands nil,   *)
(* true, false, a and 1.                                                   *)
(***************************************************************************)
LiteralOperands == {ExprNil, ExprTrue, ExprFalse}

OtherOperands == {A, One}

OperandOps == {"Add", "BAnd", "Concat", "Lt", "Eq"}

OperandExprs ==
    {BinExpr(op, l, r) : op \in OperandOps, l \in LiteralOperands, r \in OtherOperands}
    \cup {BinExpr(op, l, r) : op \in OperandOps, l \in OtherOperands, r \in LiteralOperands}
    \cup {BinExpr(op, A, B) : op \in OperandOps}
    \cup {UnExpr(op, e) : op \in {"Minus", "BNot", "Len"}, e \in LiteralOperands \cup {A}}

OperandStats ==
    {LocalStatOf(<<"c">>, <<e>>) : e \in OperandExprs}
    \cup {AssignStatOf(<<"a">>, <<e>>) : e \in OperandExprs}

NextOperand ==
    \/ block = <<>> /\ LocalStat(LocalStatOf(<<"a", "b">>, <<>>))
    \/ /\ Len(block) = 1
       /\ \E stat \in OperandStats :
             IF stat.kind = "Local" THEN LocalStat(stat) ELSE AssignStat(stat)
    \/ Close

SpecOperand == InitCompile /\ [][NextOperand]_vars

\* the calls of ExprResult::get_rk of the last statement
RKCalls == {i \in 1 .. Len(events) : events[i].ev = "get_rk"}

\* C27: get_rk is only ever called on a Const, Reg or Jump result: lowering
\* an operator that is not folded and has nil, true or false as an operand
\* ends with a result or with a CompileError, never in the unreachable
\* branch of get_rk.
C27_GetRKOnlyOnOperands ==
    /\ \A i \in RKCalls : events[i].kind \in {"Const", "Reg", "Jump"}
    /\ status # "panic"

\* the same for the operators on locals only
C27_LocalsLower ==
    (Len(block) = 2 /\ \A i \in RKCalls : events[i].kind = "Reg") => status # "panic"

(***************************************************************************)
(* SpecBreak: Lexer.run on every input of at most MaxLen bytes over the    *)
(* alphabet carriage return, line feed, a and space, under the four        *)
(* configurations: no string and no comment begins in such an input.       *)
(***************************************************************************)
BreakAlphabet == {Ord["cr"], Ord["lf"], Ord["a"], Ord[" "]}

BreakInputs == {<<>>} \cup SeqsUpTo(BreakAlphabet, MaxLen)

InitBreak ==
    /\ overflow_checks \in BOOLEAN
    /\ InitProto
    /\ IdleHistory
    /\ IdleCompile
    /\ buffer \in BreakInputs
    /\ config \in Configs
    /\ StartedLexer

SpecBreak == InitBreak /\ [][NextLex]_vars

\* the byte at the 0-based position i of the input is a line break
BreakAt(i) == i < Len(buffer) /\ is_line_break(buffer[i + 1])

\* the number of bytes of the line break that begins at the 0-based position
\* i: the two bytes of \r\n and of \n\r are one line break, a repeated byte is
\* not
BreakLength(i) == IF BreakAt(i + 1) /\ buffer[i + 2] # buffer[i + 1] THEN 2 ELSE 1

\* the line breaks of the first n bytes of the input, paired from the left
RECURSIVE LineBreaks(_, _)
LineBreaks(i, n) ==
    IF i >= n THEN 0
    ELSE IF BreakAt(i) THEN 1 + LineBreaks(i + BreakLength(i), n)
    ELSE LineBreaks(i + 1, n)

\* C24: outside strings and comments, a turn of Lexer.run that stands on a
\* line break consumes \r, \n, \r\n or \n\r whole and only the first byte of
\* \n\n and of \r\r, adds exactly one to the line, leaves the column at 1 and
\* emits no token; so the line is always one more than the number of line
\* breaks read so far, \n\n and \r\r counting as two.
C24_LineBreakCountsOnce ==
    /\ [](ctx.line = 1 + LineBreaks(0, ctx.current))
    /\ [][(lex.status = "running" /\ BreakAt(ctx.current)) =>
              /\ ctx'.current = ctx.current + BreakLength(ctx.current)
              /\ ctx'.line = ctx.line + 1
              /\ ctx'.col = 1
              /\ tokens' = tokens
              /\ lex'.status = "running"]_vars

\* the input \r\n \n\r has been read as two line breaks, and \n\n as two
C24_Witness ==
    \/ /\ buffer = <<Ord["cr"], Ord["lf"], Ord["lf"], Ord["cr"]>>
       /\ ctx.current = 4 /\ ctx.line = 3 /\ ctx.col = 1
    \/ /\ buffer = <<Ord["a"], Ord["lf"], Ord["lf"]>>
       /\ ctx.current = 3 /\ ctx.line = 3 /\ ctx.col = 1

====
